---------------------------- MODULE Spec2Model ----------------------------
(***************************************************************************)
(* Model of the porteight tracking proxy: the Redis connection pool        *)
(* (src/src/connectionPool.ts), the cache client (src/src/dragonfly.ts),   *)
(* the truck-access fetcher (src/src/truckFetcher.ts), the credential      *)
(* minter (tinybird.ts) and the proxy handler (src/src/index.ts).          *)
(*                                                                         *)
(* Twelve specifications share the variables:                              *)
(*   SpecPool       - the pool driven by clients calling execute();        *)
(*   Spec           - the proxy handler, the credential cache and the      *)
(*                    minter, where one redisPool.execute(op) call is one  *)
(*                    step whose outcome is the operation's result or a    *)
(*                    thrown error;                                        *)
(*   SpecInvalidate - Spec together with invalidation calls that meet a    *)
(*                    failing cache backend;                               *)
(*   SpecForward    - one request of any method and any inbound headers    *)
(*                    forwarded to a backend answering with any headers;   *)
(*   SpecAuth       - one request through the routes, the auth gate and    *)
(*                    authMiddleware (auth.ts) into the handler;           *)
(*   SpecSequence   - SpecAuth with the cache empty or already holding     *)
(*                    the user's credential;                               *)
(*   SpecShutdown   - the pool of one connection while shutdown() runs;    *)
(*   SpecColdStart  - the pool when a warm-up connection fails;            *)
(*   SpecHandlerPool - the handler's redisPool.execute calls run on the    *)
(*                    pool, request r being caller r;                      *)
(*   SpecShutdownTwice - SpecShutdown with a second call of shutdown();    *)
(*   SpecSubjects   - Spec with subjects that spell a truck-access key;    *)
(*   SpecModes      - Spec in production or in development mode.           *)
(***************************************************************************)
EXTENDS Integers, Sequences, FiniteSets

(***************************************************************************)
(* Bounds and configuration of the pool model.                             *)
(***************************************************************************)
\* the (minConnections, maxConnections) configurations the pool is built with
PoolConfigs == {[minConnections |-> 1, maxConnections |-> 1],
                [minConnections |-> 2, maxConnections |-> 2]}
\* number of concurrent callers of execute()
NumClients == 2
\* number of 10 ms polls of a waiting acquire before its timeout timer fires
TimeoutTicks == 1
\* how many evicted connections may have a release() probe outstanding or
\* settled late at one time
MaxLateProbes == 1
\* connection identities available to `new Redis(...)`: more than are ever
\* referenced at once, so that creation is never blocked by the model
MaxConnIds == 2 * NumClients + MaxLateProbes + 2

Clients == 1..NumClients
ConnIds == 1..MaxConnIds
\* the value of a caller's `redis` while it holds no connection
NoConn == MaxConnIds + 1

VARIABLES
    \* ---- RedisConnectionPool fields
    config,       \* this.config: PoolConfig
    pool,         \* this.pool: Redis[]
    available,    \* this.available: Redis[]
    inUse,        \* this.inUse: Set<Redis>
    creating,     \* this.creating: number
    \* ---- pending asynchronous work of the pool
    probing,      \* connections whose release-time ping() has not settled
    warmPending,  \* createConnection() calls of initializePool still pinging
    warmReady,    \* connections initializePool's createConnection() calls returned so far
    replPending,  \* replacement createConnection() calls (release's catch) in flight
    \* ---- callers of execute()
    cpc,          \* where each client is inside execute()/acquire()
    held,         \* the connection acquire() returned to the client
    waitTicks,    \* polls done by the client's waiting acquire (0 when not waiting)
    \* ---- connection sockets and shutdown()
    closed,       \* connections that were disconnect()ed or quit, while still referred to
    down,         \* where shutdown() is: not called, awaiting the quits, finished
    quits,        \* connections whose quit() of shutdown() has not settled
    again,        \* where a second shutdown() call is
    quitsAgain,   \* connections whose quit() of the second call has not settled
    \* ---- history of the pool
    returned,     \* idle connections that are idle through a release whose ping passed
    \* ---- process environment and the world outside the process
    env,          \* process.env: NODE_ENV and which settings are present
    now,          \* Date.now() / 1000
    cache,        \* the DragonflyDB keyspace: key -> entry (value, expiry)
    \* ---- proxied requests (app.all('*') handler invocations)
    req,          \* per request: position in the handler and its locals
    \* ---- callers of the invalidation functions
    lastInval,    \* the error the most recent invalidation call threw to its caller
    \* ---- the HTTP exchange
    msg,          \* the inbound request as the handler reads it (method, headers,
                  \* content type) and the headers the backend answers with
    edge          \* the request passing the auth gate and authMiddleware

poolVars == <<pool, available, inUse, creating, probing, warmPending,
              warmReady, replPending, cpc, held, waitTicks,
              closed, down, quits, again, quitsAgain, returned>>

appVars == <<env, now, cache, req, lastInval>>

httpVars == <<msg, edge>>

vars == <<config, pool, available, inUse, creating, probing, warmPending,
          warmReady, replPending, cpc, held, waitTicks,
          closed, down, quits, again, quitsAgain, returned,
          env, now, cache, req, lastInval, msg, edge>>

(***************************************************************************)
(* Helpers on arrays.                                                      *)
(***************************************************************************)
SeqSet(s) == {s[i] : i \in 1..Len(s)}

\* indexOf(x) > -1 ? splice(index, 1) : unchanged  (first occurrence only)
RECURSIVE Splice(_, _)
Splice(s, x) ==
    IF s = <<>> THEN <<>>
    ELSE IF Head(s) = x THEN Tail(s)
    ELSE <<Head(s)>> \o Splice(Tail(s), x)

\* Array.prototype.pop(): the array without its last element
PopRestKeep(s) == s
PopRest(s) == SubSeq(s, 1, Len(s) - 1)
PopValue(s) == s[Len(s)]

\* every connection object some part of the program still refers to
Referenced ==
    SeqSet(pool) \cup SeqSet(available) \cup inUse \cup probing
        \cup SeqSet(warmReady) \cup {held[c] : c \in Clients} \cup quits
        \cup quitsAgain

\* `new Redis(...)`: an object distinct from every live one
FreshConn == CHOOSE i \in ConnIds \ Referenced :
                \A j \in ConnIds \ Referenced : i <= j

CanAllocate == ConnIds \ Referenced # {}

(***************************************************************************)
(* RedisConnectionPool                                                     *)
(***************************************************************************)
\* the step closes the sockets of `ended`; a closed connection that nothing
\* refers to any more is forgotten
Closes(ended) == closed' = (closed \cup ended) \cap Referenced'

\* the step returns the connections `passed` to idle through release()
Returns(passed) == returned' = (returned \cup passed) \cap SeqSet(available')

InitPool ==
    /\ config \in PoolConfigs
    /\ pool = <<>>
    /\ available = <<>>
    /\ inUse = {}
    \* the constructor calls initializePool(), which synchronously starts
    \* minConnections createConnection() calls (each does creating++)
    /\ creating = config.minConnections
    /\ warmPending = config.minConnections
    /\ warmReady = <<>>
    /\ replPending = 0
    /\ probing = {}
    /\ cpc = [c \in Clients |-> "idle"]
    /\ held = [c \in Clients |-> NoConn]
    /\ waitTicks = [c \in Clients |-> 0]
    /\ closed = {}
    /\ down = "up"
    /\ quits = {}
    /\ again = "up"
    /\ quitsAgain = {}
    /\ returned = {}

\* One createConnection() of initializePool settles, with a createConnection()
\* whose failure path skips the `finally { this.creating-- }`
WarmConnDoneLeaksCount(ok) ==
    /\ warmPending > 0
    /\ ok => CanAllocate
    /\ creating' = IF ok THEN creating - 1 ELSE creating
    /\ warmPending' = warmPending - 1
    /\ LET ready == IF ok THEN Append(warmReady, FreshConn) ELSE warmReady
       IN IF warmPending = 1
          THEN /\ pool' = pool \o ready
               /\ available' = available \o ready
               /\ warmReady' = <<>>
          ELSE /\ warmReady' = ready
               /\ UNCHANGED <<pool, available>>
    /\ UNCHANGED <<inUse, probing, replPending, cpc, held, waitTicks>>
    /\ UNCHANGED <<config, appVars, httpVars>>
    /\ UNCHANGED <<down, quits, again, quitsAgain>>
    /\ Closes({})
    /\ Returns({})

\* One createConnection() of initializePool settles (ping ok, or null on
\* failure); when it is the last one, Promise.all resolves and every non-null
\* connection is pushed to pool and available.
WarmConnDone(ok) ==
    /\ warmPending > 0
    /\ ok => CanAllocate
    /\ creating' = creating - 1
    /\ warmPending' = warmPending - 1
    /\ LET ready == IF ok THEN Append(warmReady, FreshConn) ELSE warmReady
       IN IF warmPending = 1
          THEN /\ pool' = pool \o ready
               /\ available' = available \o ready
               /\ warmReady' = <<>>
          ELSE /\ warmReady' = ready
               /\ UNCHANGED <<pool, available>>
    /\ UNCHANGED <<inUse, probing, replPending, cpc, held, waitTicks>>
    /\ UNCHANGED <<config, appVars, httpVars>>
    /\ UNCHANGED <<down, quits, again, quitsAgain>>
    /\ Closes({})
    /\ Returns({})

\* removeConnection(redis)
RemoveConnection(redis) ==
    /\ pool' = Splice(pool, redis)
    /\ available' = Splice(available, redis)
    /\ inUse' = inUse \ {redis}

\* the guard of acquire()'s second branch
CanCreateOffByOne == Len(pool) + creating <= config.maxConnections
CanCreate == Len(pool) + creating < config.maxConnections

\* no execute() of the client is in flight: it has made no call or its last call
\* returned ("idle"), or its last call rejected ("threw", "timeout")
Settled(c) == cpc[c] \in {"idle", "threw", "timeout"}

\* acquire(), up to its first suspension
PoolAcquire(c) ==
    /\ Settled(c)
    /\ UNCHANGED waitTicks
    /\ IF Len(available) > 0
       THEN /\ available' = PopRest(available)
            /\ inUse' = inUse \cup {PopValue(available)}
            /\ held' = [held EXCEPT ![c] = PopValue(available)]
            /\ cpc' = [cpc EXCEPT ![c] = "holding"]
            /\ UNCHANGED <<pool, creating>>
       ELSE IF CanCreate
       THEN \* createConnection() runs creating++ before its first await
            /\ creating' = creating + 1
            /\ cpc' = [cpc EXCEPT ![c] = "creating"]
            /\ held' = [held EXCEPT ![c] = NoConn]
            /\ UNCHANGED <<pool, available, inUse>>
       ELSE /\ cpc' = [cpc EXCEPT ![c] = "waiting"]
            /\ held' = [held EXCEPT ![c] = NoConn]
            /\ UNCHANGED <<pool, available, inUse, creating>>
    /\ UNCHANGED <<probing, warmPending, warmReady, replPending>>
    /\ UNCHANGED <<down, quits, again, quitsAgain>>
    /\ Closes({})
    /\ Returns({})

\* Acquire of a caller outside the handler: the handler's state is untouched
Acquire(c) ==
    /\ PoolAcquire(c)
    /\ UNCHANGED <<config, appVars, httpVars>>

\* acquire() resumes after `await this.createConnection()`
AcquireCreated(c, ok) ==
    /\ cpc[c] = "creating"
    /\ ok => CanAllocate
    /\ creating' = creating - 1
    /\ IF ok
       THEN /\ pool' = Append(pool, FreshConn)
            /\ inUse' = inUse \cup {FreshConn}
            /\ held' = [held EXCEPT ![c] = FreshConn]
            /\ cpc' = [cpc EXCEPT ![c] = "holding"]
       ELSE \* newConn is null: fall through to the waiting promise
            /\ cpc' = [cpc EXCEPT ![c] = "waiting"]
            /\ UNCHANGED <<pool, inUse, held>>
    /\ UNCHANGED <<available, probing, warmPending, warmReady, replPending, waitTicks>>
    /\ UNCHANGED <<config, appVars, httpVars>>
    /\ UNCHANGED <<down, quits, again, quitsAgain>>
    /\ Closes({})
    /\ Returns({})

\* one firing of the waiting acquire's setInterval callback
AcquirePoll(c) ==
    /\ cpc[c] = "waiting"
    /\ IF Len(available) > 0
       THEN /\ available' = PopRest(available)
            /\ inUse' = inUse \cup {PopValue(available)}
            /\ held' = [held EXCEPT ![c] = PopValue(available)]
            /\ cpc' = [cpc EXCEPT ![c] = "holding"]
            /\ waitTicks' = [waitTicks EXCEPT ![c] = 0]
       ELSE /\ waitTicks[c] < TimeoutTicks
            /\ waitTicks' = [waitTicks EXCEPT ![c] = @ + 1]
            /\ UNCHANGED <<available, inUse, held, cpc>>
    /\ UNCHANGED <<pool, creating, probing, warmPending, warmReady, replPending>>
    /\ UNCHANGED <<config, appVars, httpVars>>
    /\ UNCHANGED <<down, quits, again, quitsAgain>>
    /\ Closes({})
    /\ Returns({})

\* the setTimeout callback of an acquire whose rejection also reaches a caller
\* that has already been given a connection
PoolAcquireTimeoutOnSettled(c) ==
    /\ cpc[c] \in {"waiting", "holding"}
    /\ cpc[c] = "waiting" => waitTicks[c] = TimeoutTicks
    /\ cpc' = [cpc EXCEPT ![c] = "timeout"]
    /\ waitTicks' = [waitTicks EXCEPT ![c] = 0]
    /\ UNCHANGED <<pool, available, inUse, creating, probing, warmPending,
                   warmReady, replPending, held>>
    /\ UNCHANGED <<down, quits, again, quitsAgain>>
    /\ Closes({})
    /\ Returns({})

\* the waiting acquire's setTimeout callback: clearInterval, reject
PoolAcquireTimeout(c) ==
    /\ cpc[c] = "waiting"
    /\ waitTicks[c] = TimeoutTicks
    /\ cpc' = [cpc EXCEPT ![c] = "timeout"]
    /\ waitTicks' = [waitTicks EXCEPT ![c] = 0]
    /\ UNCHANGED <<pool, available, inUse, creating, probing, warmPending,
                   warmReady, replPending, held>>
    /\ UNCHANGED <<down, quits, again, quitsAgain>>
    /\ Closes({})
    /\ Returns({})

\* AcquireTimeout of a caller outside the handler: the handler's state is untouched
AcquireTimeout(c) ==
    /\ PoolAcquireTimeout(c)
    /\ UNCHANGED <<config, appVars, httpVars>>

\* release(redis), its synchronous part: the connection leaves inUse and its
\* ping() is issued
ReleaseSkipped(redis) ==
    /\ UNCHANGED <<inUse, probing>>
Release(redis) ==
    IF redis \in inUse
    THEN /\ inUse' = inUse \ {redis}
         /\ probing' = probing \cup {redis}
    ELSE UNCHANGED <<inUse, probing>>

\* execute() with no `finally`: the operation returned and the connection
\* stays checked out
PoolExecuteReturnNoRelease(c) ==
    /\ cpc[c] = "holding"
    /\ cpc' = [cpc EXCEPT ![c] = "idle"]
    /\ held' = [held EXCEPT ![c] = NoConn]
    /\ UNCHANGED <<pool, available, inUse, probing, creating, warmPending,
                   warmReady, replPending, waitTicks>>
    /\ UNCHANGED <<down, quits, again, quitsAgain>>
    /\ Closes({})
    /\ Returns({})

\* execute(): the operation returned
PoolExecuteReturn(c) ==
    /\ cpc[c] = "holding"
    /\ Release(held[c])
    /\ cpc' = [cpc EXCEPT ![c] = "idle"]
    /\ held' = [held EXCEPT ![c] = NoConn]
    /\ UNCHANGED <<pool, available, creating, warmPending, warmReady,
                   replPending, waitTicks>>
    /\ UNCHANGED <<down, quits, again, quitsAgain>>
    /\ Closes({})
    /\ Returns({})

\* ExecuteReturn of a caller outside the handler: the handler's state is untouched
ExecuteReturn(c) ==
    /\ PoolExecuteReturn(c)
    /\ UNCHANGED <<config, appVars, httpVars>>

\* execute(): the operation threw; `finally` releases
ReleaseOnThrow(redis) == Release(redis)

PoolExecuteThrow(c) ==
    /\ cpc[c] = "holding"
    /\ ReleaseOnThrow(held[c])
    /\ cpc' = [cpc EXCEPT ![c] = "threw"]
    /\ held' = [held EXCEPT ![c] = NoConn]
    /\ UNCHANGED <<pool, available, creating, warmPending, warmReady,
                   replPending, waitTicks>>
    /\ UNCHANGED <<down, quits, again, quitsAgain>>
    /\ Closes({})
    /\ Returns({})

\* ExecuteThrow of a caller outside the handler: the handler's state is untouched
ExecuteThrow(c) ==
    /\ PoolExecuteThrow(c)
    /\ UNCHANGED <<config, appVars, httpVars>>

\* release(): redis.ping().then(...)
ProbeOk(redis) ==
    /\ redis \in probing
    /\ probing' = probing \ {redis}
    /\ available' = Append(available, redis)
    /\ UNCHANGED <<pool, inUse, creating, warmPending, warmReady, replPending,
                   cpc, held, waitTicks>>
    /\ UNCHANGED <<config, appVars, httpVars>>
    /\ UNCHANGED <<down, quits, again, quitsAgain>>
    /\ Closes({})
    /\ Returns({redis})

\* release(): redis.ping().catch(...) replacing whenever the pool is not above
\* its minimum
ProbeFailAtMinimum(redis) ==
    /\ redis \in probing
    /\ probing' = probing \ {redis}
    /\ RemoveConnection(redis)
    /\ IF Len(pool') <= config.minConnections
       THEN /\ creating' = creating + 1
            /\ replPending' = replPending + 1
       ELSE UNCHANGED <<creating, replPending>>
    /\ UNCHANGED <<warmPending, warmReady, cpc, held, waitTicks>>
    /\ UNCHANGED <<config, appVars, httpVars>>
    /\ UNCHANGED <<down, quits, again, quitsAgain>>
    /\ Closes({redis})
    /\ Returns({})

\* release(): redis.ping().catch(...)
ProbeFail(redis) ==
    /\ redis \in probing
    /\ probing' = probing \ {redis}
    /\ RemoveConnection(redis)
    /\ IF Len(pool') < config.minConnections
       THEN /\ creating' = creating + 1
            /\ replPending' = replPending + 1
       ELSE UNCHANGED <<creating, replPending>>
    /\ UNCHANGED <<warmPending, warmReady, cpc, held, waitTicks>>
    /\ UNCHANGED <<config, appVars, httpVars>>
    /\ UNCHANGED <<down, quits, again, quitsAgain>>
    /\ Closes({redis})
    /\ Returns({})

\* the replacement createConnection().then(...) of release()
ReplacementDone(ok) ==
    /\ replPending > 0
    /\ ok => CanAllocate
    /\ replPending' = replPending - 1
    /\ creating' = creating - 1
    /\ IF ok
       THEN /\ pool' = Append(pool, FreshConn)
            /\ available' = Append(available, FreshConn)
       ELSE UNCHANGED <<pool, available>>
    /\ UNCHANGED <<inUse, probing, warmPending, warmReady, cpc, held, waitTicks>>
    /\ UNCHANGED <<config, appVars, httpVars>>
    /\ UNCHANGED <<down, quits, again, quitsAgain>>
    /\ Closes({})
    /\ Returns({})

\* connections evicted from pool whose release() probe has not settled, or
\* settled after the eviction and put them back in circulation
LateProbes == (probing \cup SeqSet(available) \cup inUse) \ SeqSet(pool)

\* redis.on('error') / redis.on('close') of a connection the pool still lists
\* (in pool, or idle after a probe that settled late): removeConnection(redis)
ConnEvent(redis) ==
    /\ redis \in SeqSet(pool) \cup SeqSet(available) \cup inUse
    /\ redis \in probing => Cardinality(LateProbes) < MaxLateProbes
    /\ RemoveConnection(redis)
    /\ UNCHANGED <<creating, probing, warmPending, warmReady, replPending,
                   cpc, held, waitTicks>>
    /\ UNCHANGED <<config, appVars, httpVars>>
    /\ UNCHANGED <<down, quits, again, quitsAgain>>
    /\ Closes({redis})
    /\ Returns({})

\* shutdown() up to `await Promise.all(promises)`: quit() was called on every
\* connection of this.pool
Shutdown ==
    /\ down = "up"
    /\ down' = "quitting"
    /\ quits' = SeqSet(pool)
    /\ UNCHANGED <<pool, available, inUse, creating, probing, warmPending,
                   warmReady, replPending, cpc, held, waitTicks>>
    /\ UNCHANGED <<again, quitsAgain>>
    /\ UNCHANGED <<config, appVars, httpVars>>
    /\ Closes({})
    /\ Returns({})

\* one quit() of shutdown() settles: the socket is closed, or the promise
\* rejects, which rejects Promise.all into shutdown's catch
QuitDone(redis, ok) ==
    /\ redis \in quits
    /\ quits' = quits \ {redis}
    /\ down' = IF ~ok /\ down = "quitting" THEN "failed" ELSE down
    /\ UNCHANGED <<pool, available, inUse, creating, probing, warmPending,
                   warmReady, replPending, cpc, held, waitTicks>>
    /\ UNCHANGED <<again, quitsAgain>>
    /\ UNCHANGED <<config, appVars, httpVars>>
    /\ Closes(IF ok THEN {redis} ELSE {})
    /\ Returns({})

\* shutdown() after its try/catch: the three collections are emptied and the
\* promise of shutdown() resolves
ShutdownEnd ==
    /\ \/ down = "quitting" /\ quits = {}
       \/ down = "failed"
    /\ down' = "done"
    /\ pool' = <<>>
    /\ available' = <<>>
    /\ inUse' = {}
    /\ UNCHANGED <<creating, probing, warmPending, warmReady, replPending,
                   cpc, held, waitTicks, quits>>
    /\ UNCHANGED <<again, quitsAgain>>
    /\ UNCHANGED <<config, appVars, httpVars>>
    /\ Closes({})
    /\ Returns({})

(***************************************************************************)
(* The world of the proxy handler: identities, cache keys, configuration.  *)
(***************************************************************************)
\* number of proxied requests handled concurrently
NumRequests == 2
\* seconds the clock advances in one step of the model, and how many steps
TickSeconds == 1800
MaxTicks == 2
\* `exp: Math.floor(Date.now() / 1000) + 3600`
CredentialValidity == 3600
\* `redis.setex(`tinybird_token:${userId}`, 3600, ...)`
TokenCacheTTL == 3600
\* `const cacheTTL = 300`
TruckCacheTTL == 300

Requests == 1..NumRequests

\* subject identifiers (decoded.userId), as sequences of string segments so
\* that building a key is concatenation
Users == {<<"u1">>, <<"u2">>}

\* `tinybird_token:${userId}`
TokenKey(userId) == <<"tinybird_token:">> \o userId
\* `truck_access:${userId}`
TruckCacheKey(userId) == <<"truck_access:">> \o userId

\* the identities a verified token can carry: decoded.userId is any string,
\* among them one that begins with "truck_access:"
Subjects == Users \cup {TruckCacheKey(u) : u \in Users}

\* dragonflyClient.getToken/setToken/deleteToken prefix their argument with
\* "tinybird_token:", also when the argument is already a truck_access key
Keys == {TokenKey(s) : s \in Subjects} \cup {TokenKey(TruckCacheKey(s)) : s \in Subjects}

\* the rows of the PlanetScale truck_access table, per user
TruckAccess(userId) ==
    IF userId = <<"u1">> THEN <<"REG1", "REG2">> ELSE <<>>

\* the development fallback of getTruckRegistrationNos
FallbackTrucks == <<"HT56E4521", "HR05G5555">>

ProdEnv == [nodeEnv |-> "production", apiUrl |-> TRUE,
            signingKey |-> TRUE, workspaceId |-> TRUE, jwtSecret |-> TRUE]
DevEnv == [ProdEnv EXCEPT !.nodeEnv = "development"]
\* the environments the handler specification starts in
EnvChoices == {ProdEnv,
               [ProdEnv EXCEPT !.apiUrl = FALSE],
               [ProdEnv EXCEPT !.signingKey = FALSE],
               [ProdEnv EXCEPT !.workspaceId = FALSE]}

\* statuses the backend answers with
BackendStatuses == {200, 404}

\* null / absent
None == [kind |-> "none"]

\* the scopes of the JWT payload: one entry per readable pipe, each filtered
\* by fixed_params.registrationNo
ScopesPerResource(regs) ==
    <<[type |-> "PIPES:READ", resource |-> "truck_history_endpoint",
       fixed_params |-> [registrationNo |-> regs]],
      [type |-> "PIPES:READ", resource |-> "truck_location_endpoint",
       fixed_params |-> [registrationNo |-> SubSeq(regs, 1, 1)]]>>
Scopes(regs) ==
    <<[type |-> "PIPES:READ", resource |-> "truck_history_endpoint",
       fixed_params |-> [registrationNo |-> regs]],
      [type |-> "PIPES:READ", resource |-> "truck_location_endpoint",
       fixed_params |-> [registrationNo |-> regs]]>>

\* the signed credential: jwt.sign(jwtPayload, key) is a function of the payload
Jwt(userId, exp, regs) ==
    [kind |-> "jwt", name |-> userId, exp |-> exp, scopes |-> Scopes(regs)]
\* JSON.stringify(truckRegistrationNos)
Json(regs) == [kind |-> "json", regs |-> regs]

\* a stored key: value, the instant it expires, and (history) whether the
\* value was produced before the key was last deleted
Entry(val, lapse, stale) ==
    [kind |-> "entry", val |-> val, lapse |-> lapse, stale |-> stale]

\* a key set with SETEX is gone once its time to live has elapsed
NeverExpired(entry, t) == FALSE
Expired(entry, t) == t >= entry.lapse

\* redis GET: the value, or null when the key is absent or expired
CacheGet(key) ==
    IF cache[key] # None /\ ~Expired(cache[key], now) THEN cache[key].val ELSE None

\* whether the value GET returns was produced before the key was last deleted
CacheGetStale(key) ==
    cache[key] # None /\ ~Expired(cache[key], now) /\ cache[key].stale

\* the keyspace at instant t: expired keys are removed
CacheAt(t) ==
    [k \in Keys |-> IF cache[k] # None /\ Expired(cache[k], t) THEN None ELSE cache[k]]

\* redis SETEX key ttl value
CacheSetex(key, ttl, val, stale) ==
    [cache EXCEPT ![key] = Entry(val, now + ttl, stale)]

\* redis DEL key
CacheDel(key) == [cache EXCEPT ![key] = None]


(***************************************************************************)
(* HTTP header names and String.prototype.toLowerCase.                     *)
(***************************************************************************)
\* header names are sequences of characters
UpperCase == <<"A", "B", "C", "D", "E", "F", "G", "H", "I", "J", "K", "L", "M",
              "N", "O", "P", "Q", "R", "S", "T", "U", "V", "W", "X", "Y", "Z">>
LowerCase == <<"a", "b", "c", "d", "e", "f", "g", "h", "i", "j", "k", "l", "m",
              "n", "o", "p", "q", "r", "s", "t", "u", "v", "w", "x", "y", "z">>

\* key.toLowerCase()
Lower(name) ==
    [i \in 1..Len(name) |->
        IF \E k \in 1..Len(UpperCase) : UpperCase[k] = name[i]
        THEN LowerCase[CHOOSE k \in 1..Len(UpperCase) : UpperCase[k] = name[i]]
        ELSE name[i]]

HAuthorization == <<"A", "u", "t", "h", "o", "r", "i", "z", "a", "t", "i", "o", "n">>
HAuthorizationUpper == <<"A", "U", "T", "H", "O", "R", "I", "Z", "A", "T", "I", "O", "N">>
HAuthorizationLower == <<"a", "u", "t", "h", "o", "r", "i", "z", "a", "t", "i", "o", "n">>
HHost == <<"H", "o", "s", "t">>
HHostLower == <<"h", "o", "s", "t">>
HCookieMixed == <<"c", "O", "O", "k", "i", "e">>
HCookieLower == <<"c", "o", "o", "k", "i", "e">>
HContentType == <<"C", "o", "n", "t", "e", "n", "t", "-", "T", "y", "p", "e">>
HContentTypeLower == <<"c", "o", "n", "t", "e", "n", "t", "-", "t", "y", "p", "e">>
HAccept == <<"a", "c", "c", "e", "p", "t">>
HSetCookie == <<"S", "e", "t", "-", "C", "o", "o", "k", "i", "e">>
HSetCookieLower == <<"s", "e", "t", "-", "c", "o", "o", "k", "i", "e">>
HSetCookieUpper == <<"S", "E", "T", "-", "C", "O", "O", "K", "I", "E">>
HXRequestId == <<"x", "-", "r", "e", "q", "u", "e", "s", "t", "-", "i", "d">>

\* a header value: typeof value, its text, and the credential it carries
StringValue(text) == [type |-> "string", text |-> text, token |-> None]
ArrayValue(text) == [type |-> "array", text |-> text, token |-> None]
\* `Bearer ${tinybirdToken}`
BearerValue(token) == [type |-> "string", text |-> "Bearer ", token |-> token]

Header(name, value) == [name |-> name, value |-> value]

\* headers a caller may send, in the casing the handler sees them
InboundCandidates ==
    {Header(HAuthorizationUpper, StringValue("Bearer caller-assertion")),
     Header(HAuthorizationLower, StringValue("Bearer caller-assertion")),
     Header(HHost, StringValue("proxy.example")),
     Header(HCookieMixed, StringValue("auth_token=caller-assertion")),
     Header(HContentType, StringValue("application/json")),
     Header(HAccept, StringValue("*/*"))}

\* headers the backend may answer with
BackendCandidates ==
    {Header(HSetCookie, StringValue("session=1")),
     Header(HSetCookieUpper, StringValue("session=2")),
     Header(HSetCookieLower, ArrayValue("session=3")),
     Header(HContentTypeLower, StringValue("application/json"))}

Methods == {"GET", "POST"}

\* the inbound requests and backend answers the forwarding specification draws from
Messages ==
    [method : Methods, headers : SUBSET InboundCandidates,
     backendHeaders : SUBSET BackendCandidates]

\* a GET without headers, answered without headers
DefaultMsg == [method |-> "GET", headers |-> {}, backendHeaders |-> {}]

\* the request is outside the auth gate's model
EdgeOff == [pc |-> "off"]

InitHttp ==
    /\ msg = DefaultMsg
    /\ edge = EdgeOff

\* a handler invocation: its position, its locals (userId, tinybirdToken, the
\* registration numbers inside generateTinybirdToken) and its response; and as
\* history whether a cache operation of it failed (cacheErr), whether it called
\* generateTinybirdToken (mintCalled) and whether deleteToken succeeded for its
\* identity after it signed its credential (stale), whether deleteToken
\* succeeded for its identity while its cache lookup was pending (overtaken),
\* and whether its lookup returned a credential signed before a deleteToken
\* that had succeeded before the request began (servedStale); the request it
\* has handed to axios (sent) and whether reading its body failed (bodyErr)
NewRequest ==
    [pc |-> "new", userId |-> <<>>, tinybirdToken |-> None, regs |-> <<>>,
     response |-> None, cacheErr |-> FALSE, mintCalled |-> FALSE, stale |-> FALSE,
     overtaken |-> FALSE, servedStale |-> FALSE, sent |-> None, bodyErr |-> FALSE]

\* the clock at its origin, an empty keyspace, no request begun
InitStores ==
    /\ now = 0
    /\ cache = [k \in Keys |-> None]
    /\ req = [r \in Requests |-> NewRequest]
    /\ lastInval = "none"

InitApp ==
    /\ env \in EnvChoices
    /\ InitStores

(***************************************************************************)
(* The proxy handler, app.all('*'), and generateTinybirdToken.             *)
(***************************************************************************)
\* the JSON body { error: message } of the handler's own failure responses
ErrorBody(message) == [error |-> message]
\* response.data of the backend, passed back as it came
BackendBody == [data |-> "backend data"]

\* c.json(body, status, headers): the handler returns
RespondWith(rec, status, body, headers) ==
    [NewRequest EXCEPT !.pc = "done", !.cacheErr = rec.cacheErr,
                       !.bodyErr = rec.bodyErr,
                       !.response = [status |-> status, body |-> body,
                                     headers |-> headers]]

\* the handler's catch swallows the error and the handler goes on
RespondAndGoOn(rec, status, body) == [rec EXCEPT !.pc = "forward"]
\* c.json(body, status)
Respond(rec, status, body) == RespondWith(rec, status, body, {})

\* `const lowerKey = key.toLowerCase()`
RawKey(key) == key
LowerKey(key) == Lower(key)

\* the filter on the caller's headers
KeepsInbound(lowerKey, value) ==
    /\ lowerKey # HAuthorizationLower
    /\ lowerKey # HHostLower
    /\ lowerKey # HCookieLower
    /\ value.type = "string"

\* the `headers` object handed to axios: Authorization and Content-Type are
\* set first, then each kept caller header is assigned under its own key
RequestHeaders(token) ==
    LET base == {Header(HAuthorization, BearerValue(token)),
                 Header(HContentType, StringValue("application/json"))}
        copied == {h \in msg.headers : KeepsInbound(LowerKey(h.name), h.value)}
    IN {b \in base : \A h \in copied : h.name # b.name} \cup copied

\* the filter on the backend's response headers
KeepsAnyString(key, value) == value.type = "string"
KeepsBackend(key, value) ==
    /\ value.type = "string"
    /\ Lower(key) # HSetCookieLower

\* responseHeaders
ResponseHeaders ==
    {h \in msg.backendHeaders : KeepsBackend(h.name, h.value)}

\* what c.req.json() / c.req.text() return for the caller's body
ParsedBody ==
    IF \E h \in msg.headers :
          Lower(h.name) = HContentTypeLower /\ h.value.text = "application/json"
    THEN [parsed |-> "json", payload |-> "caller body"]
    ELSE [parsed |-> "text", payload |-> "caller body"]

\* the axios call: the headers and `data: requestBody`
Outbound(token, body) == [headers |-> RequestHeaders(token), body |-> body]

\* the handler once tinybirdToken is set, up to its next await: the axios call
\* for GET and HEAD, reading the body for every other method
AfterResolve(rec) ==
    IF ~env.apiUrl
    THEN Respond(rec, 500, ErrorBody("TINYBIRD_API_URL not configured"))
    ELSE IF msg.method \in {"GET", "HEAD"}
    THEN [rec EXCEPT !.pc = "forward", !.sent = Outbound(rec.tinybirdToken, None)]
    ELSE [rec EXCEPT !.pc = "body"]

\* the handler after `await c.req.json()` / `await c.req.text()`: ok = FALSE is
\* the read or the parse throwing, caught
BodyFailureAborts(rec, ok) ==
    IF ok
    THEN [rec EXCEPT !.pc = "forward", !.sent = Outbound(rec.tinybirdToken, ParsedBody)]
    ELSE Respond([rec EXCEPT !.bodyErr = TRUE], 500, ErrorBody("Internal server error"))
AfterBody(rec, ok) ==
    [rec EXCEPT !.pc = "forward", !.bodyErr = ~ok,
                !.sent = Outbound(rec.tinybirdToken, IF ok THEN ParsedBody ELSE None)]

BodyRead(r, ok) ==
    /\ req[r].pc = "body"
    /\ req' = [req EXCEPT ![r] = AfterBody(@, ok)]
    /\ UNCHANGED <<env, now, cache, lastInval>>
    /\ UNCHANGED <<config, poolVars, httpVars>>

\* generateTinybirdToken up to its first await (the truck-access cache read)
BeginMint(rec) ==
    LET called == [rec EXCEPT !.mintCalled = TRUE]
    IN IF ~env.workspaceId
       THEN Respond(called, 500, ErrorBody("TINYBIRD_WORKSPACE_ID environment variable is not configured"))
       ELSE IF ~env.signingKey
       THEN Respond(called, 500, ErrorBody("TINYBIRD_SIGNING_KEY environment variable is not configured"))
       ELSE [called EXCEPT !.pc = "truckGet"]

\* generateTinybirdToken once the registration numbers are known: the 404
\* rejection, or the payload is signed and the handler issues the cache store
Sign(rec, regs) ==
    IF Len(regs) = 0
    THEN Respond(rec, 404, ErrorBody("No truck registration numbers found"))
    ELSE [rec EXCEPT !.tinybirdToken = Jwt(rec.userId, now + CredentialValidity, regs),
                     !.regs = <<>>,
                     !.pc = "store"]

\* the handler up to its first await, for identity u (user.userId)
Enter(r, u) ==
    /\ req[r].pc = "new"
    /\ IF r = 1 THEN TRUE ELSE req[r - 1].pc # "new"
    /\ req' = [req EXCEPT ![r] = [@ EXCEPT !.pc = "lookup", !.userId = u]]

\* the auth middleware accepted the request for identity u
Start(r, u) ==
    /\ Enter(r, u)
    /\ UNCHANGED <<env, now, cache, lastInval>>
    /\ UNCHANGED <<config, poolVars, httpVars>>

\* the handler after `await redisPool.execute(redis => redis.get(key))`:
\* ok = FALSE is execute rejecting (pool timeout or Redis error), caught
LookupDiscarded(rec, ok) == None
LookupResult(rec, ok) ==
    IF ok THEN CacheGet(TokenKey(rec.userId)) ELSE None

HandlerCacheLookup(r, ok) ==
    /\ req[r].pc = "lookup"
    /\ LET rec == req[r]
           got == LookupResult(rec, ok)
           seen == [rec EXCEPT !.cacheErr = ~ok, !.tinybirdToken = got,
                               !.overtaken = FALSE,
                               !.servedStale = /\ got # None
                                               /\ CacheGetStale(TokenKey(rec.userId))
                                               /\ ~rec.overtaken]
       IN req' = [req EXCEPT ![r] = IF got # None THEN AfterResolve(seen)
                                    ELSE BeginMint(seen)]
    /\ UNCHANGED <<env, now, cache, lastInval>>

\* CacheLookup with the pool left as it is
CacheLookup(r, ok) ==
    /\ HandlerCacheLookup(r, ok)
    /\ UNCHANGED <<config, poolVars, httpVars>>

\* getTruckRegistrationNos after `await dragonflyClient.getToken(cacheKey)`
HandlerTruckCacheGet(r, ok) ==
    /\ req[r].pc = "truckGet"
    /\ LET rec == req[r]
           cachedData == IF ok THEN CacheGet(TokenKey(TruckCacheKey(rec.userId))) ELSE None
           next == IF cachedData # None /\ cachedData.kind = "json"
                   THEN Sign(rec, cachedData.regs)
                   ELSE [rec EXCEPT !.pc = "fetch"]
       IN req' = [req EXCEPT ![r] = next]
    /\ UNCHANGED <<env, now, cache, lastInval>>

\* TruckCacheGet with the pool left as it is
TruckCacheGet(r, ok) ==
    /\ HandlerTruckCacheGet(r, ok)
    /\ UNCHANGED <<config, poolVars, httpVars>>

\* the fallback taken whatever NODE_ENV is
InAnyMode == TRUE
\* `process.env.NODE_ENV === 'development'`
InDevelopment == env.nodeEnv = "development"

\* getTruckRegistrationNos after `await getTruckAccessForUser(userId)`
HandlerFetchTruckAccess(r, ok) ==
    /\ req[r].pc = "fetch"
    /\ LET rec == req[r]
           rows == TruckAccess(rec.userId)
           next == IF ok
                   THEN IF Len(rows) > 0
                        THEN [rec EXCEPT !.pc = "truckSet", !.regs = rows]
                        ELSE Sign(rec, rows)
                   ELSE IF InDevelopment
                        THEN Sign(rec, FallbackTrucks)
                        ELSE Respond(rec, 500, ErrorBody("Failed to generate Tinybird token"))
       IN req' = [req EXCEPT ![r] = next]
    /\ UNCHANGED <<env, now, cache, lastInval>>

\* FetchTruckAccess with the pool left as it is
FetchTruckAccess(r, ok) ==
    /\ HandlerFetchTruckAccess(r, ok)
    /\ UNCHANGED <<config, poolVars, httpVars>>

\* getTruckRegistrationNos after `await dragonflyClient.setToken(cacheKey, ..., cacheTTL)`
HandlerTruckCacheSet(r, ok) ==
    /\ req[r].pc = "truckSet"
    /\ LET rec == req[r]
       IN /\ cache' = IF ok
                      THEN CacheSetex(TokenKey(TruckCacheKey(rec.userId)), TruckCacheTTL,
                                      Json(rec.regs), FALSE)
                      ELSE cache
          /\ req' = [req EXCEPT ![r] = Sign(rec, rec.regs)]
    /\ UNCHANGED <<env, now, lastInval>>

\* TruckCacheSet with the pool left as it is
TruckCacheSet(r, ok) ==
    /\ HandlerTruckCacheSet(r, ok)
    /\ UNCHANGED <<config, poolVars, httpVars>>

\* the handler after `await redisPool.execute(redis => redis.setex(key, 3600, token))`:
\* ok = FALSE is execute rejecting, caught
StoreAbortsRequest(rec, ok) ==
    IF ok THEN AfterResolve(rec) ELSE Respond(rec, 500, ErrorBody("Internal server error"))
AfterStore(rec, ok) == AfterResolve(rec)

HandlerCacheStore(r, ok) ==
    /\ req[r].pc = "store"
    /\ LET rec == req[r]
       IN /\ cache' = IF ok
                      THEN CacheSetex(TokenKey(rec.userId), TokenCacheTTL,
                                      rec.tinybirdToken, rec.stale)
                      ELSE cache
          /\ req' = [req EXCEPT ![r] = AfterStore([rec EXCEPT !.cacheErr = @ \/ ~ok], ok)]
    /\ UNCHANGED <<env, now, lastInval>>

\* CacheStore with the pool left as it is
CacheStore(r, ok) ==
    /\ HandlerCacheStore(r, ok)
    /\ UNCHANGED <<config, poolVars, httpVars>>

\* axios resolved: any backend status is passed back
ForwardReplied(r, status) ==
    /\ req[r].pc = "forward"
    /\ req' = [req EXCEPT ![r] = RespondWith(@, status, BackendBody, ResponseHeaders)]
    /\ UNCHANGED <<env, now, cache, lastInval>>
    /\ UNCHANGED <<config, poolVars, httpVars>>

\* axios rejected without a response (network failure, timeout)
ForwardFailed(r) ==
    /\ req[r].pc = "forward"
    /\ req' = [req EXCEPT ![r] = Respond(@, 500, ErrorBody("Tinybird request failed"))]
    /\ UNCHANGED <<env, now, cache, lastInval>>
    /\ UNCHANGED <<config, poolVars, httpVars>>

(***************************************************************************)
(* DragonflyClient.deleteToken and invalidateTruckAccessCache.             *)
(***************************************************************************)
\* dragonflyClient.deleteToken(userId): resolves, or logs and rejects with a
\* DragonflyError.  A credential already signed for userId and not yet stored
\* was minted before this deletion; a request of userId whose lookup is pending
\* began before it.
DeleteTokenOutcome(ok) == IF ok THEN "none" ELSE "DragonflyError"

DeleteToken(u, ok) ==
    /\ cache' = IF ok THEN CacheDel(TokenKey(u)) ELSE cache
    /\ req' = [r \in Requests |->
                IF ok /\ req[r].userId = u /\ req[r].pc = "store"
                THEN [req[r] EXCEPT !.stale = TRUE]
                ELSE IF ok /\ req[r].userId = u /\ req[r].pc = "lookup"
                THEN [req[r] EXCEPT !.overtaken = TRUE]
                ELSE req[r]]
    /\ lastInval' = DeleteTokenOutcome(ok)
    /\ UNCHANGED <<env, now>>
    /\ UNCHANGED <<config, poolVars, httpVars>>

\* invalidateTruckAccessCache(userId): deleteToken's rejection is caught
InvalidateOutcome(ok) == "none"

InvalidateTruckAccessCache(u, ok) ==
    /\ cache' = IF ok THEN CacheDel(TokenKey(TruckCacheKey(u))) ELSE cache
    /\ lastInval' = InvalidateOutcome(ok)
    /\ UNCHANGED <<env, now, req>>
    /\ UNCHANGED <<config, poolVars, httpVars>>

\* time passes
Tick ==
    /\ now + TickSeconds <= MaxTicks * TickSeconds
    /\ now' = now + TickSeconds
    /\ cache' = CacheAt(now')
    /\ UNCHANGED <<env, req, lastInval>>
    /\ UNCHANGED <<config, poolVars, httpVars>>

(***************************************************************************)
(* The routes ahead of the proxy handler, the auth gate and authMiddleware.*)
(***************************************************************************)
\* getCookie(c, name) and c.req.header('Authorization') of an absent source
Undefined == [kind |-> "undefined"]
\* the empty string, as of the cookie `auth_token=`
EmptyString == [kind |-> "empty"]

\* a token string in JWT form: whether it parses as a JWT, whether its
\* signature is the HMAC of the configured secret, its exp claim and its
\* userId claim (<<>> when the payload has none)
Assertion(wellFormed, signed, exp, userId) ==
    [kind |-> "assertion", wellFormed |-> wellFormed, signed |-> signed,
     exp |-> exp, userId |-> userId]

\* the token strings a caller presents in a cookie: valid ones for either
\* user, one that lapsed and one with a foreign signature
CookieAssertions ==
    {Assertion(TRUE, TRUE, CredentialValidity, <<"u1">>),
     Assertion(TRUE, TRUE, CredentialValidity, <<"u2">>),
     Assertion(TRUE, TRUE, 0, <<"u1">>),
     Assertion(TRUE, FALSE, CredentialValidity, <<"u1">>)}

\* a string that is not a JWT
NotAJwt == Assertion(FALSE, FALSE, 0, <<>>)

\* and in the Authorization header: also one that is not a JWT and one
\* without userId
Assertions ==
    CookieAssertions \cup {NotAJwt, Assertion(TRUE, TRUE, CredentialValidity, <<>>)}

CookieNames == {"auth_token", "jwt", "access_token"}
CookieValues == {Undefined, EmptyString} \cup CookieAssertions

\* an Authorization header value: its first seven characters and the rest
AuthHeader(scheme, rest) == [kind |-> "header", scheme |-> scheme, rest |-> rest]
AuthHeaderValues ==
    {Undefined, AuthHeader("Basic ", NotAJwt),
     AuthHeader("Bearer ", EmptyString)}
        \cup {AuthHeader("Bearer ", a) : a \in Assertions}

Paths == {"/health", "/metrics", "/auth/test", "/v0/pipes/trucks.json"}

\* a request as it reaches the routes: nothing selected, verified or answered yet
Arrival(path, cookies, authHeader) ==
    [pc |-> "received", path |-> path, cookies |-> cookies,
     authHeader |-> authHeader, token |-> Undefined, verified |-> <<>>,
     user |-> None, response |-> None]

Arrivals ==
    {Arrival(path, cookies, authHeader) :
        path \in Paths, cookies \in [CookieNames -> CookieValues],
        authHeader \in AuthHeaderValues}

\* !x of JavaScript for a string or undefined
Falsy(value) == value \in {Undefined, EmptyString}

\* a || b
Or(a, b) == IF Falsy(a) THEN b ELSE a

\* the bearer header ahead of the cookies
SelectTokenBearerFirst(cookies, authHeader) ==
    IF authHeader # Undefined /\ authHeader.scheme = "Bearer "
    THEN authHeader.rest
    ELSE Or(Or(cookies["auth_token"], cookies["jwt"]), cookies["access_token"])

\* authMiddleware's `token` when it reaches `if (!token)`
SelectToken(cookies, authHeader) ==
    LET token == Or(Or(cookies["auth_token"], cookies["jwt"]), cookies["access_token"])
    IN IF Falsy(token)
       THEN IF ~Falsy(authHeader) /\ authHeader.scheme = "Bearer "
            THEN authHeader.rest
            ELSE token
       ELSE token

\* new AuthError(message, statusCode)
AuthError(message, statusCode) ==
    [kind |-> "thrown", class |-> "AuthError", message |-> message,
     statusCode |-> statusCode]
\* an error of the jsonwebtoken library
JwtError(class) == [kind |-> "thrown", class |-> class]
\* the payload jwt.verify returns
Decoded(token) == [kind |-> "decoded", userId |-> token.userId]

\* jwt.decode(token): the payload without checking signature or expiry
VerifyUnchecked(token) ==
    IF ~token.wellFormed THEN JwtError("JsonWebTokenError") ELSE Decoded(token)

\* jwt.verify(token, jwtSecret): the structure, then the signature, then exp
\* against the clock
Verify(token) ==
    IF ~token.wellFormed THEN JwtError("JsonWebTokenError")
    ELSE IF ~token.signed THEN JwtError("JsonWebTokenError")
    ELSE IF now >= token.exp THEN JwtError("TokenExpiredError")
    ELSE Decoded(token)

\* the try block with the JWT_SECRET check ahead of the token check
CheckedSecretFirst(token, jwtSecret) ==
    IF ~jwtSecret
    THEN AuthError("JWT_SECRET environment variable is not configured", 500)
    ELSE IF Falsy(token)
    THEN AuthError("Authentication required. Please provide a valid JWT token in cookies or Authorization header.", 401)
    ELSE LET decoded == Verify(token)
         IN IF decoded.kind = "decoded" /\ decoded.userId = <<>>
            THEN AuthError("Invalid token: userId not found in JWT payload", 401)
            ELSE decoded

\* authMiddleware's try block from `if (!token)` to the check of
\* decoded.userId: the payload, or what is thrown
Checked(token, jwtSecret) ==
    IF Falsy(token)
    THEN AuthError("Authentication required. Please provide a valid JWT token in cookies or Authorization header.", 401)
    ELSE IF ~jwtSecret
    THEN AuthError("JWT_SECRET environment variable is not configured", 500)
    ELSE LET decoded == Verify(token)
         IN IF decoded.kind = "decoded" /\ decoded.userId = <<>>
            THEN AuthError("Invalid token: userId not found in JWT payload", 401)
            ELSE decoded

\* error instanceof class: TokenExpiredError extends JsonWebTokenError
InstanceOf(error, class) ==
    \/ error.class = class
    \/ error.class = "TokenExpiredError" /\ class = "JsonWebTokenError"

\* the body { error, code, timestamp } of authMiddleware's responses
AuthBody(message, code) == [error |-> message, code |-> code, timestamp |-> now]

\* c.json(body, status) outside the proxy handler
Reply(status, body) == [status |-> status, body |-> body]

\* authMiddleware's catch block
Caught(error) ==
    IF InstanceOf(error, "AuthError")
    THEN Reply(error.statusCode, AuthBody(error.message, "AUTH_ERROR"))
    ELSE IF InstanceOf(error, "JsonWebTokenError")
    THEN Reply(401, AuthBody("Invalid authentication token format or signature",
                             "INVALID_TOKEN"))
    ELSE IF InstanceOf(error, "TokenExpiredError")
    THEN Reply(401, AuthBody("Authentication token has expired. Please log in again.",
                             "TOKEN_EXPIRED"))
    ELSE Reply(500, AuthBody("Internal authentication error", "AUTH_INTERNAL_ERROR"))

\* the routes registered ahead of the gate: app.get('/health') and
\* app.get('/metrics') answer a GET and end the chain; every other request
\* goes on to the gate
PublicRoutes ==
    /\ edge.pc = "received"
    /\ edge' = IF msg.method = "GET" /\ edge.path \in {"/health", "/metrics"}
               THEN [edge EXCEPT !.pc = "done",
                                 !.response = Reply(200, [status |-> "healthy"])]
               ELSE [edge EXCEPT !.pc = "gate"]
    /\ UNCHANGED <<msg, config, poolVars, appVars>>

\* app.use('*') of index.ts: /health and /metrics go to next() as they are,
\* every other path goes through authMiddleware, which answers or sets
\* c.get('user') and goes to next()
Gate ==
    /\ edge.pc = "gate"
    /\ edge' = IF edge.path = "/health" \/ edge.path = "/metrics"
               THEN [edge EXCEPT !.pc = "routes"]
               ELSE LET token == SelectToken(edge.cookies, edge.authHeader)
                        result == Checked(token, env.jwtSecret)
                        tried == IF Falsy(token) \/ ~env.jwtSecret
                                 THEN <<>> ELSE <<token>>
                    IN IF result.kind = "thrown"
                       THEN [edge EXCEPT !.pc = "done", !.token = token,
                                         !.verified = tried,
                                         !.response = Caught(result)]
                       ELSE [edge EXCEPT !.pc = "routes", !.token = token,
                                         !.verified = tried,
                                         !.user = [userId |-> result.userId]]
    /\ UNCHANGED <<msg, config, poolVars, appVars>>

\* the routes after the gate: app.get('/auth/test') answers from
\* c.get('user'); app.all('*') reads user.userId, which throws a TypeError
\* into the handler's outer catch when no user was set, and otherwise runs the
\* handler up to its cache lookup
Routes ==
    /\ edge.pc = "routes"
    /\ IF msg.method = "GET" /\ edge.path = "/auth/test"
       THEN /\ edge' = [edge EXCEPT !.pc = "done",
                                    !.response = Reply(200, [success |-> TRUE,
                                                             userId |-> edge.user.userId])]
            /\ req' = req
       ELSE IF edge.user = None
       THEN /\ edge' = [edge EXCEPT !.pc = "done",
                                    !.response = Reply(500, ErrorBody("Internal server error"))]
            /\ req' = req
       ELSE /\ edge' = [edge EXCEPT !.pc = "handler"]
            /\ Enter(1, edge.user.userId)
    /\ UNCHANGED <<msg, config, poolVars, env, now, cache, lastInval>>

(***************************************************************************)
(* Specifications.                                                         *)
(***************************************************************************)
Next ==
    \/ \E r \in Requests, u \in Users : Start(r, u)
    \/ \E r \in Requests, ok \in BOOLEAN : CacheLookup(r, ok)
    \/ \E r \in Requests, ok \in BOOLEAN : TruckCacheGet(r, ok)
    \/ \E r \in Requests, ok \in BOOLEAN : FetchTruckAccess(r, ok)
    \/ \E r \in Requests, ok \in BOOLEAN : TruckCacheSet(r, ok)
    \/ \E r \in Requests, ok \in BOOLEAN : CacheStore(r, ok)
    \/ \E r \in Requests, status \in BackendStatuses : ForwardReplied(r, status)
    \/ \E r \in Requests : ForwardFailed(r)
    \/ \E u \in Users : DeleteToken(u, TRUE)
    \/ \E u \in Users : InvalidateTruckAccessCache(u, TRUE)
    \/ Tick

\* the auth middleware accepted a request whose token names a subject that
\* begins with "truck_access:"
StartAs(r, s) ==
    /\ s \in Subjects \ Users
    /\ Start(r, s)

\* the handler serving every subject
NextSubjects ==
    \/ \E r \in Requests, s \in Subjects : StartAs(r, s)
    \/ Next

\* the invalidation calls when the cache backend fails: the DEL changes no key
FailedInvalidation ==
    \/ \E u \in Users : DeleteToken(u, FALSE)
    \/ \E u \in Users : InvalidateTruckAccessCache(u, FALSE)

NextInvalidate == Next \/ FailedInvalidation

\* the handler runs over a pool that is left as constructed
Init ==
    /\ InitApp
    /\ InitPool
    /\ InitHttp
    /\ config.minConnections = 1

Spec == Init /\ [][Next]_vars

SpecSubjects == Init /\ [][NextSubjects]_vars

\* the handler with every setting present, in production or in development
InitModes ==
    /\ env \in {ProdEnv, DevEnv}
    /\ InitStores
    /\ InitPool
    /\ InitHttp
    /\ config.minConnections = 1

SpecModes == InitModes /\ [][Next]_vars

\* the handler together with invalidation calls that hit a failing backend
SpecInvalidate == Init /\ [][NextInvalidate]_vars

NextPool ==
    \/ \E ok \in BOOLEAN : WarmConnDone(ok)
    \/ \E c \in Clients : Acquire(c)
    \/ \E c \in Clients, ok \in BOOLEAN : AcquireCreated(c, ok)
    \/ \E c \in Clients : AcquirePoll(c)
    \/ \E c \in Clients : AcquireTimeout(c)
    \/ \E c \in Clients : ExecuteReturn(c)
    \/ \E c \in Clients : ExecuteThrow(c)
    \/ \E redis \in ConnIds : ProbeOk(redis)
    \/ \E redis \in ConnIds : ProbeFail(redis)
    \/ \E ok \in BOOLEAN : ReplacementDone(ok)
    \/ \E redis \in ConnIds : ConnEvent(redis)

\* the pool runs alone, in the production environment with no request started
InitPoolOnly ==
    /\ InitPool
    /\ InitApp
    /\ InitHttp
    /\ env = ProdEnv

SpecPool == InitPoolOnly /\ [][NextPool]_vars

\* a cold start: the cache service refuses at least one of the warm-up
\* connections (the last createConnection() to settle fails if none has)
WarmUpFails(ok) ==
    (warmPending = 1 /\ Len(warmReady) = config.minConnections - 1) => ~ok

\* one warm-up createConnection() settles during a cold start
ColdWarmConnDone(ok) ==
    /\ WarmUpFails(ok)
    /\ WarmConnDone(ok)

NextColdStart ==
    \/ \E ok \in BOOLEAN : ColdWarmConnDone(ok)
    \/ \E c \in Clients : Acquire(c)
    \/ \E c \in Clients, ok \in BOOLEAN : AcquireCreated(c, ok)
    \/ \E c \in Clients : AcquirePoll(c)
    \/ \E c \in Clients : AcquireTimeout(c)
    \/ \E c \in Clients : ExecuteReturn(c)
    \/ \E c \in Clients : ExecuteThrow(c)
    \/ \E redis \in ConnIds : ProbeOk(redis)
    \/ \E redis \in ConnIds : ProbeFail(redis)
    \/ \E ok \in BOOLEAN : ReplacementDone(ok)
    \/ \E redis \in ConnIds : ConnEvent(redis)

SpecColdStart == InitPoolOnly /\ [][NextColdStart]_vars

\* a second shutdown() call, made while the first is awaiting its quits or
\* after it returned: quit() is called on every connection of this.pool
ShutdownAgain ==
    /\ down # "up"
    /\ again = "up"
    /\ again' = "quitting"
    /\ quitsAgain' = SeqSet(pool)
    /\ UNCHANGED <<pool, available, inUse, creating, probing, warmPending,
                   warmReady, replPending, cpc, held, waitTicks, down, quits>>
    /\ UNCHANGED <<config, appVars, httpVars>>
    /\ Closes({})
    /\ Returns({})

\* the second call's `catch` is missing: a rejected quit() rejects shutdown()
QuitAgainUncaught(ok) == IF ok THEN again ELSE "thrown"
\* one quit() of the second call settles: on a connection the first call has
\* already quit it may reject, into the catch around Promise.all
QuitAgainCaught(ok) == IF ~ok /\ again = "quitting" THEN "failed" ELSE again

QuitAgainDone(redis, ok) ==
    /\ redis \in quitsAgain
    /\ quitsAgain' = quitsAgain \ {redis}
    /\ again' = QuitAgainCaught(ok)
    /\ UNCHANGED <<pool, available, inUse, creating, probing, warmPending,
                   warmReady, replPending, cpc, held, waitTicks, down, quits>>
    /\ UNCHANGED <<config, appVars, httpVars>>
    /\ Closes(IF ok THEN {redis} ELSE {})
    /\ Returns({})

\* the second call after its try/catch
ShutdownAgainEnd ==
    /\ \/ again = "quitting" /\ quitsAgain = {}
       \/ again = "failed"
    /\ again' = "done"
    /\ pool' = <<>>
    /\ available' = <<>>
    /\ inUse' = {}
    /\ UNCHANGED <<creating, probing, warmPending, warmReady, replPending,
                   cpc, held, waitTicks, down, quits, quitsAgain>>
    /\ UNCHANGED <<config, appVars, httpVars>>
    /\ Closes({})
    /\ Returns({})

(***************************************************************************)
(* The handler on the pool: request r is caller r of redisPool.execute.     *)
(***************************************************************************)
\* the handler begins and calls redisPool.execute for its cache lookup
StartLookup(r, u) ==
    /\ Enter(r, u)
    /\ UNCHANGED <<env, now, cache, lastInval>>
    /\ PoolAcquire(r)
    /\ UNCHANGED <<config, httpVars>>

\* redis.get resolved: execute releases and the handler goes on
LookupReturned(r) ==
    /\ HandlerCacheLookup(r, TRUE)
    /\ PoolExecuteReturn(r)
    /\ UNCHANGED <<config, httpVars>>

\* redis.get rejected: execute releases and rethrows, the handler's catch
LookupThrew(r) ==
    /\ HandlerCacheLookup(r, FALSE)
    /\ PoolExecuteThrow(r)
    /\ UNCHANGED <<config, httpVars>>

\* acquire() rejected with the pool timeout, the handler's catch
LookupTimedOut(r) ==
    /\ HandlerCacheLookup(r, FALSE)
    /\ PoolAcquireTimeout(r)
    /\ UNCHANGED <<config, httpVars>>

\* generateTinybirdToken returned: the handler calls redisPool.execute for its
\* cache store; otherwise the pool is not touched
StoreCall(r) ==
    IF req'[r].pc = "store" THEN PoolAcquire(r) ELSE UNCHANGED poolVars

MintTruckCacheGet(r, ok) ==
    /\ HandlerTruckCacheGet(r, ok)
    /\ StoreCall(r)
    /\ UNCHANGED <<config, httpVars>>

MintFetchTruckAccess(r, ok) ==
    /\ HandlerFetchTruckAccess(r, ok)
    /\ StoreCall(r)
    /\ UNCHANGED <<config, httpVars>>

MintTruckCacheSet(r, ok) ==
    /\ HandlerTruckCacheSet(r, ok)
    /\ StoreCall(r)
    /\ UNCHANGED <<config, httpVars>>

\* redis.setex resolved: execute releases and the handler goes on
StoreReturned(r) ==
    /\ HandlerCacheStore(r, TRUE)
    /\ PoolExecuteReturn(r)
    /\ UNCHANGED <<config, httpVars>>

\* redis.setex rejected: execute releases and rethrows, the handler's catch
StoreThrew(r) ==
    /\ HandlerCacheStore(r, FALSE)
    /\ PoolExecuteThrow(r)
    /\ UNCHANGED <<config, httpVars>>

\* acquire() rejected with the pool timeout, the handler's catch
StoreTimedOut(r) ==
    /\ HandlerCacheStore(r, FALSE)
    /\ PoolAcquireTimeout(r)
    /\ UNCHANGED <<config, httpVars>>

NextHandlerPool ==
    \/ \E r \in Requests, u \in Users : StartLookup(r, u)
    \/ \E r \in Requests : LookupReturned(r)
    \/ \E r \in Requests : LookupThrew(r)
    \/ \E r \in Requests : LookupTimedOut(r)
    \/ \E r \in Requests, ok \in BOOLEAN : MintTruckCacheGet(r, ok)
    \/ \E r \in Requests, ok \in BOOLEAN : MintFetchTruckAccess(r, ok)
    \/ \E r \in Requests, ok \in BOOLEAN : MintTruckCacheSet(r, ok)
    \/ \E r \in Requests : StoreReturned(r)
    \/ \E r \in Requests : StoreThrew(r)
    \/ \E r \in Requests : StoreTimedOut(r)
    \/ \E r \in Requests, ok \in BOOLEAN : BodyRead(r, ok)
    \/ \E r \in Requests, status \in BackendStatuses : ForwardReplied(r, status)
    \/ \E r \in Requests : ForwardFailed(r)
    \/ \E ok \in BOOLEAN : WarmConnDone(ok)
    \/ \E c \in Clients, ok \in BOOLEAN : AcquireCreated(c, ok)
    \/ \E c \in Clients : AcquirePoll(c)
    \/ \E redis \in ConnIds : ProbeOk(redis)
    \/ \E redis \in ConnIds : ProbeFail(redis)
    \/ \E ok \in BOOLEAN : ReplacementDone(ok)
    \/ \E redis \in ConnIds : ConnEvent(redis)

\* two requests share a pool of one connection, in production, each a POST
InitHandlerPool ==
    /\ InitStores
    /\ env = ProdEnv
    /\ InitPool
    /\ config.maxConnections = 1
    /\ msg = [DefaultMsg EXCEPT !.method = "POST"]
    /\ edge = EdgeOff

SpecHandlerPool == InitHandlerPool /\ [][NextHandlerPool]_vars

\* the pool while the SIGINT/SIGTERM handler runs shutdown(): callers keep
\* calling execute() until shutdown() has returned and the process exits
NextShutdown ==
    \/ down # "done" /\ NextPool
    \/ Shutdown
    \/ \E redis \in ConnIds, ok \in BOOLEAN : QuitDone(redis, ok)
    \/ ShutdownEnd

\* shutdown() is followed on the pool of one connection
InitShutdown ==
    /\ InitPoolOnly
    /\ config.maxConnections = 1

SpecShutdown == InitShutdown /\ [][NextShutdown]_vars

\* a caller's execute() while the server is up: the signal handlers run when
\* the server is being stopped, and callers already inside execute() go on
AcquireWhileUp(c) ==
    /\ down = "up"
    /\ Acquire(c)

\* the pool while shutdown() is called twice; the process goes on until both
\* calls have returned
NextShutdownTwice ==
    \/ \E ok \in BOOLEAN : WarmConnDone(ok)
    \/ \E c \in Clients : AcquireWhileUp(c)
    \/ \E c \in Clients, ok \in BOOLEAN : AcquireCreated(c, ok)
    \/ \E c \in Clients : AcquirePoll(c)
    \/ \E c \in Clients : AcquireTimeout(c)
    \/ \E c \in Clients : ExecuteReturn(c)
    \/ \E c \in Clients : ExecuteThrow(c)
    \/ \E redis \in ConnIds : ProbeOk(redis)
    \/ \E redis \in ConnIds : ProbeFail(redis)
    \/ \E ok \in BOOLEAN : ReplacementDone(ok)
    \/ \E redis \in ConnIds : ConnEvent(redis)
    \/ Shutdown
    \/ \E redis \in ConnIds, ok \in BOOLEAN : QuitDone(redis, ok)
    \/ ShutdownEnd
    \/ ShutdownAgain
    \/ \E redis \in ConnIds, ok \in BOOLEAN : QuitAgainDone(redis, ok)
    \/ ShutdownAgainEnd

SpecShutdownTwice == InitShutdown /\ [][NextShutdownTwice]_vars

\* one request of any method with any of the candidate headers, forwarded to a
\* backend that answers with any of the candidate headers
InitForward ==
    /\ InitApp
    /\ InitPool
    /\ config.minConnections = 1
    /\ env = ProdEnv
    /\ msg \in Messages
    /\ edge = EdgeOff

NextForward ==
    \/ \E u \in Users : Start(1, u)
    \/ \E r \in Requests, ok \in BOOLEAN : CacheLookup(r, ok)
    \/ \E r \in Requests, ok \in BOOLEAN : TruckCacheGet(r, ok)
    \/ \E r \in Requests, ok \in BOOLEAN : FetchTruckAccess(r, ok)
    \/ \E r \in Requests, ok \in BOOLEAN : TruckCacheSet(r, ok)
    \/ \E r \in Requests, ok \in BOOLEAN : CacheStore(r, ok)
    \/ \E r \in Requests, ok \in BOOLEAN : BodyRead(r, ok)
    \/ \E r \in Requests, status \in BackendStatuses : ForwardReplied(r, status)
    \/ \E r \in Requests : ForwardFailed(r)

SpecForward == InitForward /\ [][NextForward]_vars

\* one request of any method to any of the paths, with any of the cookie and
\* Authorization values, with and without JWT_SECRET, through the routes
InitAuth ==
    /\ InitStores
    /\ InitPool
    /\ config.minConnections = 1
    /\ env \in {ProdEnv, [ProdEnv EXCEPT !.jwtSecret = FALSE]}
    /\ msg \in {m \in Messages : m.headers = {} /\ m.backendHeaders = {}}
    /\ edge \in Arrivals

NextAuth ==
    \/ PublicRoutes
    \/ Gate
    \/ Routes
    \/ \E r \in Requests, ok \in BOOLEAN : CacheLookup(r, ok)
    \/ \E r \in Requests, ok \in BOOLEAN : TruckCacheGet(r, ok)
    \/ \E r \in Requests, ok \in BOOLEAN : FetchTruckAccess(r, ok)
    \/ \E r \in Requests, ok \in BOOLEAN : TruckCacheSet(r, ok)
    \/ \E r \in Requests, ok \in BOOLEAN : CacheStore(r, ok)
    \/ \E r \in Requests, ok \in BOOLEAN : BodyRead(r, ok)
    \/ \E r \in Requests, status \in BackendStatuses : ForwardReplied(r, status)
    \/ \E r \in Requests : ForwardFailed(r)

SpecAuth == InitAuth /\ [][NextAuth]_vars

\* the keyspace an earlier request of userId left behind: its credential,
\* stored at the clock's origin
StoredBefore(userId) ==
    [k \in Keys |->
        IF k = TokenKey(userId)
        THEN Entry(Jwt(userId, CredentialValidity, TruckAccess(userId)),
                   TokenCacheTTL, FALSE)
        ELSE None]

\* one arriving request is followed through the gate and the handler, with
\* the cache empty or holding the credential of an earlier request
InitSequence ==
    /\ now = 0
    /\ cache \in {[k \in Keys |-> None], StoredBefore(<<"u1">>)}
    /\ req = [r \in Requests |-> NewRequest]
    /\ lastInval = "none"
    /\ InitPool
    /\ config.minConnections = 1
    /\ env \in {ProdEnv, [ProdEnv EXCEPT !.jwtSecret = FALSE]}
    /\ msg \in {m \in Messages : m.headers = {} /\ m.backendHeaders = {}}
    /\ edge \in Arrivals

SpecSequence == InitSequence /\ [][NextAuth]_vars

(***************************************************************************)
(* Properties of the connection pool (checked under SpecPool).             *)
(***************************************************************************)
\* the model never runs out of connection identities: creation is never blocked
IdsSuffice == CanAllocate

\* C2: in every reachable state, pool.length is at most maxConnections.
C2_PoolWithinMax == Len(pool) <= config.maxConnections

\* total == maxConnections and every pooled connection is checked out
PoolExhausted ==
    /\ Len(pool) = config.maxConnections
    /\ SeqSet(pool) \subseteq inUse
    /\ available = <<>>

\* C3: an acquire() called while total == maxConnections and every connection
\* is in use returns no connection and creates none: the caller waits; a
\* waiting caller leaves the wait only by taking a connection that is idle at
\* that moment, or, once the timeout has elapsed, by failing with the pool
\* timeout error, holding nothing.
C3_ExhaustedAcquireWaits ==
    [][\A c \in Clients :
        /\ (Settled(c) /\ cpc'[c] # cpc[c] /\ PoolExhausted)
              => (cpc'[c] = "waiting" /\ held'[c] = NoConn
                    /\ pool' = pool /\ creating' = creating /\ inUse' = inUse)
        /\ (cpc[c] = "waiting" /\ cpc'[c] # "waiting")
              => \/ /\ cpc'[c] = "holding"
                    /\ Len(available) > 0
                    /\ held'[c] = PopValue(available)
                 \/ /\ cpc'[c] = "timeout"
                    /\ waitTicks[c] = TimeoutTicks
                    /\ held'[c] = NoConn
                    /\ inUse' = inUse]_vars

\* a caller failed with the pool timeout while the pool was exhausted
C3_Witness ==
    \E c \in Clients : cpc[c] = "timeout" /\ PoolExhausted /\ inUse # {}

\* C4: no two in-flight operations hold the same connection, and a connection
\* held by an operation is neither idle nor being probed, so acquire() cannot
\* hand it out again before it is released.
C4_ExclusiveCheckout ==
    \A c \in Clients :
        cpc[c] = "holding" =>
            /\ held[c] \notin SeqSet(available)
            /\ held[c] \notin probing
            /\ \A d \in Clients \ {c} : cpc[d] = "holding" => held[d] # held[c]

\* two operations hold connections at once, both checked out
C4_Witness ==
    \E c, d \in Clients :
        /\ c # d
        /\ cpc[c] = "holding" /\ cpc[d] = "holding"
        /\ held[c] \in inUse /\ held[d] \in inUse

\* C5: when execute() settles, by the operation returning or by it throwing,
\* the connection it acquired is no longer in the in-use set.
C5_ExecuteReleases ==
    [][\A c \in Clients :
        (cpc[c] = "holding" /\ cpc'[c] # "holding") => held[c] \notin inUse']_vars

\* an operation threw while holding a checked-out connection, and the
\* connection has left the in-use set
C5_Witness ==
    \E c \in Clients : cpc[c] = "threw" /\ probing # {} /\ probing \cap inUse = {}

\* C21: once shutdown() has been called, no call of acquire() returns a
\* connection or starts creating one
C21_NoAcquireAfterShutdown ==
    [][\A c \in Clients :
          (down # "up" /\ Settled(c)) => cpc'[c] \notin {"holding", "creating"}]_vars

\* C22: the quit of shutdown() closes no connection that is in use, and once
\* shutdown() has returned the collections are empty, no connection is being
\* created or probed, and every connection anything still refers to is closed
C22_ShutdownDrainsThenClosesAll ==
    /\ [][\A redis \in quits : (redis \in closed' \ closed) => redis \notin inUse]_vars
    /\ [](down = "done" =>
             /\ pool = <<>> /\ available = <<>> /\ inUse = {}
             /\ creating = 0
             /\ probing = {}
             /\ quits = {}
             /\ Referenced \subseteq closed)

\* C25: a connection whose release-time ping passed is idle, and while a
\* caller waits in acquire() with its timeout not yet elapsed, such a
\* connection is handed out only to a caller that was waiting
C25_ReturnedGoesToWaitingCaller ==
    [][(/\ \E w \in Clients : cpc[w] = "waiting" /\ waitTicks[w] < TimeoutTicks
        /\ Len(available) > 0
        /\ PopValue(available) \in returned
        /\ PopValue(available) \in inUse' \ inUse)
          => \E w \in Clients : cpc[w] = "waiting" /\ cpc'[w] = "holding"]_vars

\* the step in which the release() probe of `redis` rejects: the probe is no
\* longer outstanding and the connection was not pushed to available
ProbeFailed(redis) ==
    /\ redis \in probing
    /\ redis \notin probing'
    /\ redis \notin SeqSet(available')

\* C26: when the liveness probe of a released connection fails, the connection
\* is removed from the pool list, the idle list and the in-use set and is
\* closed; one replacement creation is started by that eviction exactly when
\* the pool list is then shorter than minConnections, and none otherwise; a
\* replacement that was created is appended to the pool list and to the idle
\* list and is not in use.
C26_EvictionStartsOneReplacement ==
    /\ [][\A redis \in ConnIds :
             ProbeFailed(redis) =>
                /\ redis \notin SeqSet(pool') \cup SeqSet(available') \cup inUse'
                /\ redis \in Referenced' => redis \in closed'
                /\ replPending' - replPending
                      = IF Len(pool') < config.minConnections THEN 1 ELSE 0
                /\ creating' - creating = replPending' - replPending]_vars
    /\ [][(replPending' < replPending /\ pool' # pool) =>
             \E new \in ConnIds \ (SeqSet(pool) \cup SeqSet(available) \cup inUse) :
                /\ replPending' = replPending - 1
                /\ pool' = Append(pool, new)
                /\ available' = Append(available, new)
                /\ inUse' = inUse]_vars

\* a failed probe evicted a connection, left the pool below its minimum, and
\* the replacement creation is in flight
C26_Witness ==
    /\ replPending > 0
    /\ warmPending = 0
    /\ Len(pool) < config.minConnections

\* a probe is outstanding for a connection that is no longer in the pool list
\* while the pool list is back at its minimum: its failure starts no replacement
C26_LateEviction ==
    \E redis \in probing :
        redis \notin SeqSet(pool) /\ Len(pool) >= config.minConnections

\* createConnection() calls that have not settled
InFlight ==
    warmPending + replPending + Cardinality({c \in Clients : cpc[c] = "creating"})

\* C27: when a warm-up creation fails, warm-up still completes and adds fewer
\* than minConnections connections to the pool, all of them idle; the
\* pool stays usable: a caller that then finds nothing idle while the pool
\* list and the creations really in flight are below maxConnections creates a
\* connection, and a creation that succeeds hands that connection, pooled and
\* in use, to the caller.
C27_WarmUpFailureKeepsPoolUsable ==
    /\ [][(warmPending = 1 /\ warmPending' = 0) =>
             LET added == SubSeq(pool', Len(pool) + 1, Len(pool'))
             IN /\ Len(added) < config.minConnections
                /\ pool' = pool \o added
                /\ available' = available \o added]_vars
    /\ [][\A c \in Clients :
             (/\ warmPending = 0
              /\ Settled(c) /\ cpc'[c] # cpc[c]
              /\ available = <<>>
              /\ Len(pool) + InFlight < config.maxConnections)
                => cpc'[c] = "creating"]_vars
    /\ [][\A c \in Clients :
             (cpc[c] = "creating" /\ cpc'[c] # cpc[c] /\ pool' # pool)
                => /\ cpc'[c] = "holding"
                   /\ held'[c] \in SeqSet(pool') \cap inUse']_vars

\* the only warm-up connection failed, and a caller holds a connection that
\* its acquire created afterwards
C27_Witness ==
    /\ warmPending = 0
    /\ config.minConnections = 1
    /\ replPending = 0 /\ probing = {} /\ returned = {}
    /\ \E c \in Clients : cpc[c] = "holding" /\ held[c] \in SeqSet(pool)

\* C31: the pool heals itself to its minimum size.  Once the pool list holds
\* minConnections connections, every step that evicts a connection and leaves
\* the pool list below minConnections (a failed release probe, or an 'error'
\* or 'close' event of the connection) starts the creation of a replacement.
C31_EvictionBelowMinimumStartsReplacement ==
    [][(/\ warmPending = 0
        /\ Len(pool) >= config.minConnections
        /\ Len(pool') < config.minConnections)
          => /\ replPending' = replPending + 1
             /\ creating' = creating + 1]_vars

\* C32: shutdown is idempotent.  A second shutdown() call, begun while the
\* first is still awaiting its quits or after it returned, never rejects, and
\* the step in which it returns leaves the pool list, the idle list and the
\* in-use set empty, as the step in which the first call returns does.
C32_ShutdownIdempotent ==
    /\ [](again # "thrown")
    /\ [][(again # "done" /\ again' = "done") =>
             pool' = <<>> /\ available' = <<>> /\ inUse' = {}]_vars
    /\ [][(down # "done" /\ down' = "done") =>
             pool' = <<>> /\ available' = <<>> /\ inUse' = {}]_vars

\* the second call began while the first was awaiting its quits, one of its
\* own quits was rejected, and both calls have returned
C32_Witness ==
    /\ down = "done"
    /\ again = "done"
    /\ quitsAgain # {}
    /\ pool = <<>> /\ available = <<>> /\ inUse = {}

\* C34: in every reachable state of the pool the idle list and the in-use set
\* are disjoint, the idle list holds no connection twice, and both hold only
\* connections of the pool list; so acquire never hands out a connection that
\* was evicted or closed.
C34_ListsWithinPool ==
    /\ [](/\ SeqSet(available) \cap inUse = {}
          /\ Cardinality(SeqSet(available)) = Len(available)
          /\ SeqSet(available) \cup inUse \subseteq SeqSet(pool))
    /\ [][\A c \in Clients :
             (cpc[c] # "holding" /\ cpc'[c] = "holding") =>
                /\ held'[c] \in SeqSet(pool')
                /\ held'[c] \notin closed']_vars

\* C36: a waiting acquire settles exactly once.  A caller fails with the pool
\* timeout only out of the wait, holding nothing; while it stays failed, no
\* step gives it a connection, and every connection that a step adds to the
\* in-use set or pops from the idle list goes to a caller that the same step
\* hands it to; and a caller that has been given a connection is never
\* afterwards failed with the timeout for that acquire.
C36_WaitSettlesOnce ==
    /\ [][\A c \in Clients :
             (cpc[c] # "timeout" /\ cpc'[c] = "timeout") =>
                /\ cpc[c] = "waiting"
                /\ held'[c] = NoConn
                /\ available' = available /\ inUse' = inUse]_vars
    /\ [][\A c \in Clients :
             (cpc[c] = "timeout" /\ cpc'[c] = "timeout") => held'[c] = NoConn]_vars
    /\ [][\A redis \in inUse' \ inUse :
             \E d \in Clients :
                cpc[d] # "holding" /\ cpc'[d] = "holding" /\ held'[d] = redis]_vars
    /\ [][\A c \in Clients :
             cpc[c] = "holding" => cpc'[c] \in {"holding", "idle", "threw"}]_vars

\* one caller has failed with the timeout and stays failed while a connection
\* is idle, and another caller that waited holds a connection
C36_Witness ==
    \E c, d \in Clients :
        /\ cpc[c] = "timeout"
        /\ held[c] = NoConn
        /\ Len(available) > 0
        /\ cpc[d] = "holding"
        /\ held[d] \in inUse

\* C30: a caller that obtains an idle connection overtakes no caller that was
\* already waiting: a caller whose acquire() call it is obtains none while
\* another waits, and a waiting caller obtains none while another has waited
\* through more polls
C30_NoOvertaking ==
    [][\A c, d \in Clients :
          (/\ c # d
           /\ cpc[c] # "holding" /\ cpc'[c] = "holding"
           /\ Len(available) > 0 /\ held'[c] = PopValue(available)
           /\ cpc[d] = "waiting")
             => cpc[c] = "waiting" /\ waitTicks[c] >= waitTicks[d]]_vars

(***************************************************************************)
(* Properties of the proxy handler (checked under Spec).                   *)
(***************************************************************************)
\* the request is inside generateTinybirdToken, or holds the credential it
\* signed and has not yet stored it
InMint(r) == req[r].pc \in {"truckGet", "fetch", "truckSet", "store"}

\* C1: concurrent requests on the same identity whose credential is not cached
\* invoke generateTinybirdToken once between them: no two requests of one
\* identity are minting at the same time.
C1_SingleFlight ==
    \A r1, r2 \in Requests :
        (r1 # r2 /\ InMint(r1) /\ InMint(r2)) => req[r1].userId # req[r2].userId

\* C6: the cache entry written after a mint lapses no later than the expiry
\* instant (exp) embedded in the stored credential.
C6_EntryLapsesByExp ==
    \A u \in Users :
        cache[TokenKey(u)] # None => cache[TokenKey(u)].lapse <= cache[TokenKey(u)].val.exp

\* C9: a request that begins after deleteToken(identity) has succeeded never
\* gets from the cache a credential signed before that deletion.
C9_NoStaleAfterInvalidate ==
    \A r \in Requests : ~req[r].servedStale

\* the responses generateTinybirdToken's own failures produce
MintFailureBodies ==
    {ErrorBody("TINYBIRD_WORKSPACE_ID environment variable is not configured"),
     ErrorBody("TINYBIRD_SIGNING_KEY environment variable is not configured"),
     ErrorBody("No truck registration numbers found"),
     ErrorBody("Failed to generate Tinybird token")}

\* the responses of a request that got past the credential cache: a minting
\* failure, the missing backend URL, a forwarding failure, or the backend's reply
PastCacheBodies ==
    MintFailureBodies
        \cup {ErrorBody("TINYBIRD_API_URL not configured"),
              ErrorBody("Tinybird request failed"), BackendBody}

\* the handler returned the configuration error that precedes forwarding
ApiUrlMissing(rec) ==
    /\ ~env.apiUrl
    /\ rec.pc = "done"
    /\ rec.response.status = 500
    /\ rec.response.body = ErrorBody("TINYBIRD_API_URL not configured")

\* the request is in generateTinybirdToken, or was answered by its failure
MintInvoked(rec) ==
    \/ rec.mintCalled
    \/ rec.pc = "done" /\ rec.response.body \in MintFailureBodies

\* C7: a failed cache lookup makes the request proceed to mint as on a miss; a
\* cache store, failed or not, is followed by forwarding; and a request that
\* met a cache failure is answered only by what minting and forwarding produce.
C7_CacheFailureTolerated ==
    /\ [][\A r \in Requests :
            /\ (req[r].pc = "lookup" /\ req'[r].pc # "lookup" /\ req'[r].cacheErr)
                  => MintInvoked(req'[r])
            /\ (req[r].pc = "store" /\ req'[r].pc # "store")
                  => (req'[r].pc = "forward" \/ ApiUrlMissing(req'[r]))]_vars
    /\ [](\A r \in Requests :
            (req[r].pc = "done" /\ req[r].cacheErr)
                => req[r].response.body \in PastCacheBodies)

\* a request that met a cache failure was answered with the backend's reply
C7_Witness ==
    \E r \in Requests :
        /\ req[r].pc = "done"
        /\ req[r].cacheErr
        /\ req[r].response.status = 200
        /\ req[r].response.body = BackendBody

\* C8: a lookup that succeeds while the stored entry's TTL has not lapsed
\* yields exactly the stored credential and does not invoke
\* generateTinybirdToken; a lookup when no entry is stored or its TTL has
\* lapsed invokes generateTinybirdToken.
C8_HitBeforeLapseElseMint ==
    [][\A r \in Requests :
        (req[r].pc = "lookup" /\ req'[r].pc # "lookup" /\ ~req'[r].cacheErr) =>
            LET entry == cache[TokenKey(req[r].userId)]
            IN IF entry # None /\ now < entry.lapse
               THEN /\ ~MintInvoked(req'[r])
                    /\ \/ /\ req'[r].pc = "forward"
                          /\ req'[r].tinybirdToken = entry.val
                       \/ ApiUrlMissing(req'[r])
               ELSE MintInvoked(req'[r])]_vars

\* a request is about to forward with the stored credential of its identity,
\* not having called generateTinybirdToken
C8_Witness ==
    \E r \in Requests :
        /\ req[r].pc = "forward"
        /\ ~req[r].mintCalled
        /\ cache[TokenKey(req[r].userId)] # None
        /\ req[r].tinybirdToken = cache[TokenKey(req[r].userId)].val

\* C11: an identity whose access set is empty is answered 404 with a body
\* that carries a code, and neither its credential key nor its truck-access
\* key is ever written.
C11_EmptyAccess404WithCode ==
    /\ \A u \in Users :
          Len(TruckAccess(u)) = 0 =>
              /\ cache[TokenKey(u)] = None
              /\ cache[TokenKey(TruckCacheKey(u))] = None
    /\ \A r \in Requests :
          (/\ req[r].pc = "done"
           /\ req[r].response.body = ErrorBody("No truck registration numbers found"))
              => /\ req[r].response.status = 404
                 /\ "code" \in DOMAIN req[r].response.body

\* C19: every failure response the handler builds has the body
\* {error, code, timestamp}.
C19_StructuredFailureBodies ==
    \A r \in Requests :
        (req[r].pc = "done" /\ "error" \in DOMAIN req[r].response.body)
            => DOMAIN req[r].response.body = {"error", "code", "timestamp"}

\* every credential a request holds or the cache stores
Credentials ==
    {req[r].tinybirdToken : r \in Requests}
        \cup {cache[TokenKey(u)].val : u \in {v \in Users : cache[TokenKey(v)] # None}}

\* C20: in every minted credential each scope entry's
\* fixed_params.registrationNo equals the full access set of the identity the
\* credential was minted for.
C20_ScopesMatchResourceSet ==
    \A t \in Credentials \ {None} :
        \A i \in 1..Len(t.scopes) :
            t.scopes[i].fixed_params.registrationNo = TruckAccess(t.name)

\* a request holds a freshly signed credential with both scope entries over an
\* access set of more than one registration number
C20_Witness ==
    \E r \in Requests :
        /\ req[r].pc = "store"
        /\ Len(req[r].tinybirdToken.scopes) = 2
        /\ Len(TruckAccess(req[r].userId)) > 1

\* C23: every invocation of the minter goes to AccessIndex (the step after
\* the minter's entry is the PlanetScale query), and the minter acts on no
\* cache entry and changes none
C23_MintRecomputesFromAccessIndex ==
    /\ [][\A r \in Requests :
             (req[r].pc = "truckGet" /\ req'[r].pc # "truckGet") => req'[r].pc = "fetch"]_vars
    /\ [][\A r \in Requests :
             (req[r].pc \in {"truckGet", "fetch", "truckSet"} /\ req'[r] # req[r])
                 => cache' = cache]_vars

\* the bodies of the responses that report a missing configuration value
ConfigErrorBodies ==
    {ErrorBody("TINYBIRD_WORKSPACE_ID environment variable is not configured"),
     ErrorBody("TINYBIRD_SIGNING_KEY environment variable is not configured"),
     ErrorBody("TINYBIRD_API_URL not configured")}

\* C24: no request is accepted and then answered with a configuration error
C24_NoConfigErrorPerRequest ==
    \A r \in Requests :
        req[r].pc = "done" => req[r].response.body \notin ConfigErrorBodies

\* the step in which generateTinybirdToken throws for request r: the request
\* was inside the minter, or at a lookup that failed or found no credential,
\* and leaves them without a credential
MintFails(r) ==
    /\ \/ req[r].pc \in {"truckGet", "fetch", "truckSet"}
       \/ /\ req[r].pc = "lookup"
          /\ req'[r].cacheErr \/ CacheGet(TokenKey(req[r].userId)) = None
    /\ req'[r].pc \notin {"lookup", "truckGet", "fetch", "truckSet"}
    /\ req'[r].tinybirdToken = None

ResourceSet(t) == t.scopes[1].fixed_params.registrationNo

C37_ProductionWitness ==
    \E r \in Requests :
        /\ env.nodeEnv = "production"
        /\ req[r].pc = "done"
        /\ req[r].response.status = 500
        /\ req[r].response.body = ErrorBody("Failed to generate Tinybird token")

(***************************************************************************)
(* Properties of forwarding (checked under SpecForward).                   *)
(***************************************************************************)
\* C16: every request handed to axios carries Authorization: Bearer <the
\* resolved credential>, and no other header named Authorization, Host or
\* Cookie in any casing.
C16_OnlyResolvedCredentialForwarded ==
    \A r \in Requests :
        req[r].pc = "forward" =>
            LET own == Header(HAuthorization, BearerValue(req[r].tinybirdToken))
            IN /\ req[r].tinybirdToken # None
               /\ own \in req[r].sent.headers
               /\ \A h \in req[r].sent.headers :
                     Lower(h.name) \in {HAuthorizationLower, HHostLower, HCookieLower}
                         => h = own

\* a request is with axios whose caller sent Authorization, Host and Cookie in
\* non-standard casing next to a header that is copied
C16_Witness ==
    \E r \in Requests :
        /\ req[r].pc = "forward"
        /\ {HAuthorizationUpper, HHost, HCookieMixed, HAccept}
              \subseteq {h.name : h \in msg.headers}
        /\ HAccept \in {h.name : h \in req[r].sent.headers}

\* C17: no response of a proxied request carries a backend header named
\* Set-Cookie, in any casing.
C17_NoSetCookieReturned ==
    \A r \in Requests :
        req[r].pc = "done" =>
            \A h \in req[r].response.headers : Lower(h.name) # HSetCookieLower

\* the backend answered with Set-Cookie headers in several casings next to
\* another header, and the response was returned with that other header
C17_Witness ==
    \E r \in Requests :
        /\ req[r].pc = "done"
        /\ req[r].response.body = BackendBody
        /\ {HSetCookie, HSetCookieUpper, HSetCookieLower}
              \subseteq {h.name : h \in msg.backendHeaders}
        /\ req[r].response.headers # {}

\* C18: a request whose body could not be read or parsed is still handed to
\* axios, with no body, and is answered by what forwarding produces.
C18_BodyFailureStillForwards ==
    /\ [][\A r \in Requests :
            (req[r].pc = "body" /\ req'[r].pc # "body")
                => /\ req'[r].pc = "forward"
                   /\ req'[r].bodyErr => req'[r].sent.body = None
                   /\ ~req'[r].bodyErr => req'[r].sent.body = ParsedBody]_vars
    /\ [](\A r \in Requests :
            (req[r].pc = "done" /\ req[r].bodyErr)
                => req[r].response.body
                      \in {BackendBody, ErrorBody("Tinybird request failed")})

\* a POST whose body could not be read was answered with the backend's reply
C18_Witness ==
    \E r \in Requests :
        /\ msg.method = "POST"
        /\ req[r].pc = "done"
        /\ req[r].bodyErr
        /\ req[r].response.status = 200
        /\ req[r].response.body = BackendBody

(***************************************************************************)
(* Properties of authentication (checked under SpecAuth).                  *)
(***************************************************************************)
\* the request is for a path other than /health and /metrics
Protected == edge.path \notin {"/health", "/metrics"}

\* a source carries a token
Present(value) == value.kind \notin {"undefined", "empty"}

\* the token of the first source that carries one, in the order cookie
\* auth_token, cookie jwt, cookie access_token, Authorization: Bearer
FirstPresent ==
    IF Present(edge.cookies["auth_token"]) THEN edge.cookies["auth_token"]
    ELSE IF Present(edge.cookies["jwt"]) THEN edge.cookies["jwt"]
    ELSE IF Present(edge.cookies["access_token"]) THEN edge.cookies["access_token"]
    ELSE IF edge.authHeader.kind = "header" /\ edge.authHeader.scheme = "Bearer "
    THEN edge.authHeader.rest
    ELSE Undefined

\* a token that is a JWT signed with the secret, not lapsed, naming a user
ValidNow(token) ==
    /\ token.kind = "assertion"
    /\ token.wellFormed
    /\ token.signed
    /\ token.exp > now
    /\ token.userId # <<>>

\* the request carries no cookie with a token and no Bearer header
NoCredential ==
    /\ \A name \in CookieNames : ~Present(edge.cookies[name])
    /\ edge.authHeader.kind = "header" => edge.authHeader.scheme # "Bearer "

\* C12: a request to a protected route with no assertion cookie and no bearer
\* header never reaches the proxy handler (so no cache lookup over the pool,
\* no mint and no backend call is made for it), and its answer is the 401 of
\* the missing credential
C12_MissingCredential401 ==
    (edge.pc # "off" /\ Protected /\ NoCredential) =>
        /\ edge.pc # "handler"
        /\ \A r \in Requests : req[r] = NewRequest
        /\ inUse = {}
        /\ edge.pc = "done" =>
              /\ edge.response.status = 401
              /\ edge.response.body.code = "AUTH_ERROR"
              /\ edge.response.body.error = "Authentication required. Please provide a valid JWT token in cookies or Authorization header."

C12_Witness ==
    /\ edge.pc = "done"
    /\ Protected
    /\ NoCredential
    /\ msg.method = "POST"
    /\ ~env.jwtSecret
    /\ edge.authHeader.kind = "header"
    /\ edge.response.status = 401

\* C13: the token authMiddleware selects is the one of the first source that
\* carries one, in the order cookie auth_token, cookie jwt, cookie
\* access_token, Bearer header; nothing but that token is handed to
\* jwt.verify, and a user is set only when that token verifies
C13_FirstPresentSourceOnly ==
    (edge.pc \in {"routes", "handler", "done"} /\ Protected) =>
        /\ IF Present(FirstPresent) THEN edge.token = FirstPresent
                                    ELSE ~Present(edge.token)
        /\ Len(edge.verified) <= 1
        /\ \A i \in 1..Len(edge.verified) : edge.verified[i] = FirstPresent
        /\ edge.user # None =>
              /\ ValidNow(FirstPresent)
              /\ edge.user.userId = FirstPresent.userId

\* an empty auth_token cookie, a lapsed jwt cookie and valid tokens in the
\* access_token cookie and the Bearer header: the jwt cookie alone is verified
\* and the request is rejected
C13_Witness ==
    /\ edge.pc = "done"
    /\ Protected
    /\ edge.cookies["auth_token"] = EmptyString
    /\ Present(edge.cookies["jwt"])
    /\ ~ValidNow(edge.cookies["jwt"])
    /\ ValidNow(edge.cookies["access_token"])
    /\ edge.authHeader.kind = "header"
    /\ edge.authHeader.scheme = "Bearer "
    /\ ValidNow(edge.authHeader.rest)
    /\ edge.verified = <<edge.cookies["jwt"]>>
    /\ edge.user = None
    /\ edge.response.status = 401

\* C14: a correctly signed assertion whose expiry has passed is answered 401
\* with code TOKEN_EXPIRED
C14_ExpiredAnsweredTokenExpired ==
    (/\ edge.pc = "done"
     /\ Protected
     /\ env.jwtSecret
     /\ edge.token.kind = "assertion"
     /\ edge.token.wellFormed
     /\ edge.token.signed
     /\ now >= edge.token.exp) =>
        /\ edge.response.status = 401
        /\ edge.response.body.code = "TOKEN_EXPIRED"

\* C15: the handler does anything (cache lookup, mint, backend call) only for
\* a request to a protected path whose selected token verified, and for the
\* user that token names; and a request without such a token is answered 200
\* only by GET /health and GET /metrics
C15_NoHandlerWorkWithoutValidation ==
    /\ (\E r \in Requests : req[r] # NewRequest) =>
          /\ Protected
          /\ env.jwtSecret
          /\ ValidNow(FirstPresent)
          /\ \A r \in Requests :
                req[r].pc \notin {"new", "done"} => req[r].userId = FirstPresent.userId
    /\ (edge.pc = "done" /\ edge.response.status = 200) =>
          \/ msg.method = "GET" /\ ~Protected
          \/ env.jwtSecret /\ ValidNow(FirstPresent)

\* a POST to /health carrying a valid cookie passes the gate unauthenticated
\* and is answered 500 without the handler looking anything up
C15_Witness ==
    /\ edge.pc = "done"
    /\ edge.path = "/health"
    /\ msg.method = "POST"
    /\ ValidNow(edge.cookies["auth_token"])
    /\ edge.user = None
    /\ edge.response.status = 500
    /\ \A r \in Requests : req[r] = NewRequest

\* the handler's awaits in program order
PcRank(pc) ==
    CASE pc = "new" -> 0
      [] pc = "lookup" -> 1
      [] pc = "truckGet" -> 2
      [] pc = "fetch" -> 3
      [] pc = "truckSet" -> 4
      [] pc = "store" -> 5
      [] pc = "body" -> 6
      [] pc = "forward" -> 7
      [] pc = "done" -> 8

MintPcs == {"truckGet", "fetch", "truckSet"}

\* C28: within one request the steps are strictly ordered.  The request never
\* goes back to an earlier step; its cache lookup is issued only once the gate
\* has verified a token and set the user, and for that user; the minter is
\* entered only from the lookup, and only when the lookup failed or the cache
\* held no live credential for the user; the cache store is issued only by
\* the minter having produced a credential, and the cache is written with
\* that credential only; the body is read and the backend called only when a
\* credential is resolved, after the lookup that found one or after the store.
C28_StepsStrictlyOrdered ==
    /\ [][\A r \in Requests : PcRank(req'[r].pc) >= PcRank(req[r].pc)]_vars
    /\ [][\A r \in Requests :
             (req[r].pc = "new" /\ req'[r].pc # "new") =>
                /\ req'[r].pc = "lookup"
                /\ edge.pc = "routes"
                /\ edge.verified # <<>>
                /\ edge.user # None
                /\ req'[r].userId = edge.user.userId]_vars
    /\ [][\A r \in Requests :
             (\/ ~req[r].mintCalled /\ req'[r].mintCalled
              \/ req[r].pc \notin MintPcs /\ req'[r].pc \in MintPcs) =>
                /\ req[r].pc = "lookup"
                /\ req'[r].tinybirdToken = None
                /\ req'[r].cacheErr \/ CacheGet(TokenKey(req[r].userId)) = None]_vars
    /\ [][\A r \in Requests :
             (req[r].pc # "store" /\ req'[r].pc = "store") =>
                /\ req[r].pc \in MintPcs
                /\ req[r].tinybirdToken = None
                /\ req'[r].tinybirdToken # None]_vars
    /\ [][\A u \in Users :
             cache'[TokenKey(u)] # cache[TokenKey(u)] =>
                \E r \in Requests :
                   /\ req[r].pc = "store" /\ req'[r].pc # "store"
                   /\ req[r].userId = u
                   /\ cache'[TokenKey(u)].val = req[r].tinybirdToken]_vars
    /\ [][\A r \in Requests :
             (req[r].pc \notin {"body", "forward"} /\ req'[r].pc \in {"body", "forward"}) =>
                /\ req[r].pc \in {"lookup", "store"}
                /\ req'[r].tinybirdToken # None
                /\ req[r].pc = "lookup" => ~req'[r].mintCalled]_vars
    /\ [][\A r \in Requests :
             (req[r].sent = None /\ req'[r].sent # None) =>
                /\ req'[r].pc = "forward"
                /\ req'[r].tinybirdToken # None]_vars

\* a request passed the gate, missed the cache, minted, stored and is at the
\* backend call
C28_Witness ==
    \E r \in Requests :
        /\ req[r].pc = "forward"
        /\ req[r].mintCalled
        /\ ~req[r].cacheErr
        /\ edge.pc = "handler"
        /\ CacheGet(TokenKey(req[r].userId)) = req[r].tinybirdToken

\* a request passed the gate, found its credential in the cache and is at the
\* backend call without having minted
C28_HitWitness ==
    \E r \in Requests :
        /\ req[r].pc = "forward"
        /\ ~req[r].mintCalled
        /\ CacheGet(TokenKey(req[r].userId)) = req[r].tinybirdToken

(***************************************************************************)
(* Properties of the cache keys (checked under SpecSubjects).              *)
(***************************************************************************)
\* C33: the key spaces of credentials and of resource sets are disjoint, so a
\* credential lookup never returns a cached resource set as a credential:
\* whatever a request holds as its credential is a signed credential.
C33_LookupNeverReturnsResourceSet ==
    \A r \in Requests :
        req[r].tinybirdToken # None => req[r].tinybirdToken.kind = "jwt"

\* C33, the keys themselves: a cached resource set is stored under
\* truck_access:<subject>, and no credential key is a resource-set key.
C33_KeySpacesDisjoint ==
    /\ \A k \in Keys :
          (cache[k] # None /\ cache[k].val.kind = "json") =>
             \E s \in Subjects : k = TruckCacheKey(s)
    /\ \A s1, s2 \in Subjects :
          (cache[TokenKey(TruckCacheKey(s2))] # None) =>
             TokenKey(s1) # TokenKey(TruckCacheKey(s2))

(***************************************************************************)
(* Properties of the handler on the pool (checked under SpecHandlerPool).  *)
(***************************************************************************)
\* the request has a redisPool.execute call in flight
InExecute(r) == ~Settled(r)

\* C29: a request holds no pooled connection while it mints, reads its body
\* or forwards.  A request has an execute() call in flight (waiting for,
\* creating or holding a connection) only while it is at its cache lookup or
\* its cache store, and at the store only with the minted credential; every
\* connection checked out of the pool is held by a request that is at its
\* lookup or its store; and the step that leaves the lookup or the store
\* leaves the request with no connection.
C29_NoConnectionWhileMintingOrForwarding ==
    /\ [](\A r \in Requests :
             /\ InExecute(r) => req[r].pc \in {"lookup", "store"}
             /\ (InExecute(r) /\ req[r].pc = "store") => req[r].tinybirdToken # None
             /\ req[r].pc \notin {"lookup", "store"} => held[r] = NoConn)
    /\ [](\A redis \in inUse :
             \E r \in Requests :
                /\ held[r] = redis
                /\ cpc[r] = "holding"
                /\ req[r].pc \in {"lookup", "store"})
    /\ [][\A r \in Requests :
             (req[r].pc \in {"lookup", "store"} /\ req'[r].pc # req[r].pc) =>
                /\ held[r] \notin inUse'
                /\ held'[r] = NoConn
                /\ Settled(r)']_vars

\* one request is at the backend call, having minted and stored, while the
\* other holds the pool's connection for its own lookup
C29_Witness ==
    \E r, q \in Requests :
        /\ req[r].pc = "forward"
        /\ req[r].mintCalled
        /\ ~req[r].cacheErr
        /\ req[q].pc = "lookup"
        /\ cpc[q] = "holding"
        /\ held[q] \in inUse

(***************************************************************************)
(* Properties of invalidation (checked under SpecInvalidate).              *)
(***************************************************************************)
\* C10: an invalidation that meets a failing cache backend completes without
\* propagating an error to its caller.
C10_InvalidationNeverThrows == lastInval # "DragonflyError"

=============================================================================
